---------------------------- MODULE Spec2Model ----------------------------
(***************************************************************************)
(* Model of the meter-data decoder of sde-meter-parser (src/parsers.py).   *)
(*                                                                         *)
(* Text is held as sequences of one-character strings, so that splitting,  *)
(* stripping, pattern matching and number parsing are computed the way the *)
(* Python code computes them.  An instant is a day since 1970-01-01 and a  *)
(* second of that day, in UTC.  A reading's value is held as an integer    *)
(* number of thousandths of its unit (12.34 kWh is 12340), which is exact  *)
(* for every division the decoder performs (by 10, 100 and 1000).          *)
(***************************************************************************)
EXTENDS Integers, Sequences, FiniteSets, TLC

VARIABLES
    csvGen,      \* the rows a synthetic tabular file was rendered from
    csvContent,  \* the text handed to BlueLinkCSVParser.parse, as raw lines
    csvResult,   \* the FileProcessingResult it returned, or NoResult
    tsGen,       \* the date-time a DLMS octet string was rendered from
    tsHex,       \* the text handed to _decode_profile_timestamp
    tsOut,       \* the instant it returned, or NoResult
    xmlGen,      \* the document handed to MAP110XMLParser.parse
    xmlNow,      \* what datetime.now(timezone.utc) returns during that parse
    xmlResult,   \* the FileProcessingResult it returned, or NoResult
    xmlOrigin,   \* for each of its readings, where in the document it came from
    audFiles,    \* the FileProcessingResults handed to the auditor
    audOp,       \* the operation of the auditor that ran last
    audOut,      \* what that operation returned
    fpGen,       \* the upload handed to FileProcessor: a file or an archive
    fpNows,      \* what datetime.now(timezone.utc) returned to each parse of the call
    fpOut,       \* the FileProcessingResults the call returned
    fpCalls,     \* the operation that ran and, for each result, the parser invoked for it
    batFiles,    \* the uploads handed to process_files
    batForce,    \* its force_cldn
    batDone,     \* the number of uploads its loop has been through
    batResults,  \* its processing_results
    batParsed,   \* the same results as the parsers returned them
    wkJobs,      \* for each worker, the uploads it is to decode, in order
    wkOut,       \* for each worker, the results of the uploads it has decoded
    wkClock,     \* the wall clock of the process: the number of the present instant
    expIn,       \* the readings handed to export_readings
    expOut,      \* the MeterReadings of the document it returned
    visCache,    \* _computation_cache: its entries in the order of their insertion
    visCall,     \* the arguments of the last detect_missing_intervals call
    visOut,      \* what that call returned
    obCode,      \* the dotted code of the OBIS quantity that is looked up
    obFound      \* what the tables of the parsers and the registry hold for it

csvVars == <<csvGen, csvContent, csvResult>>

tsVars == <<tsGen, tsHex, tsOut>>

xmlVars == <<xmlGen, xmlNow, xmlResult, xmlOrigin>>

audVars == <<audFiles, audOp, audOut>>

fpVars == <<fpGen, fpNows, fpOut, fpCalls>>

batVars == <<batFiles, batForce, batDone, batResults, batParsed>>

wkVars == <<wkJobs, wkOut, wkClock>>

expVars == <<expIn, expOut>>

visVars == <<visCache, visCall, visOut>>

obVars == <<obCode, obFound>>

vars == <<csvGen, csvContent, csvResult, tsGen, tsHex, tsOut,
          xmlGen, xmlNow, xmlResult, xmlOrigin, audFiles, audOp, audOut,
          fpGen, fpNows, fpOut, fpCalls,
          batFiles, batForce, batDone, batResults, batParsed,
          wkJobs, wkOut, wkClock, expIn, expOut, visCache, visCall, visOut,
          obCode, obFound>>

\* what the operations on one kind of input leave alone
NotCsv == <<tsVars, xmlVars, audVars, fpVars, batVars, wkVars,
           expVars, visVars, obVars>>

NotTs == <<csvVars, xmlVars, audVars, fpVars, batVars, wkVars,
           expVars, visVars, obVars>>

NotXml == <<csvVars, tsVars, audVars, fpVars, batVars, wkVars,
           expVars, visVars, obVars>>

NotAud == <<csvVars, tsVars, xmlVars, fpVars, batVars, wkVars,
           expVars, visVars, obVars>>

NotFp == <<csvVars, tsVars, xmlVars, audVars, batVars, wkVars,
           expVars, visVars, obVars>>

NotBat == <<csvVars, tsVars, xmlVars, audVars, fpVars, wkVars, expVars, visVars,
           obVars>>

NotWk == <<csvVars, tsVars, xmlVars, audVars, fpVars, batVars, expVars, visVars,
          obVars>>

NotExp == <<csvVars, tsVars, xmlVars, audVars, fpVars, batVars, wkVars, visVars,
           obVars>>

NotVis == <<csvVars, tsVars, xmlVars, audVars, fpVars, batVars, wkVars, expVars,
           obVars>>

NotOb == <<csvVars, tsVars, xmlVars, audVars, fpVars, batVars, wkVars, expVars,
          visVars>>

NoResult == [none |-> TRUE]

NoFile == [none |-> TRUE]

(***************************************************************************)
(* Sequences and characters                                                *)
(***************************************************************************)
RECURSIVE SeqConcat(_)
SeqConcat(ss) ==
    IF ss = <<>> THEN <<>> ELSE Head(ss) \o SeqConcat(Tail(ss))

SeqOfLen(S, n) == [1..n -> S]

SeqUpTo(S, n) == UNION {SeqOfLen(S, k) : k \in 0..n}

Range(s) == {s[i] : i \in DOMAIN s}

DigitChars == {"0", "1", "2", "3", "4", "5", "6", "7", "8", "9"}

DigitVal(c) ==
    CASE c = "0" -> 0 [] c = "1" -> 1 [] c = "2" -> 2 [] c = "3" -> 3
      [] c = "4" -> 4 [] c = "5" -> 5 [] c = "6" -> 6 [] c = "7" -> 7
      [] c = "8" -> 8 [] c = "9" -> 9

DigitChar(d) ==
    CASE d = 0 -> "0" [] d = 1 -> "1" [] d = 2 -> "2" [] d = 3 -> "3"
      [] d = 4 -> "4" [] d = 5 -> "5" [] d = 6 -> "6" [] d = 7 -> "7"
      [] d = 8 -> "8" [] d = 9 -> "9"

\* str(n) for n >= 0
RECURSIVE Digits(_)
Digits(n) ==
    IF n < 10 THEN <<DigitChar(n)>>
    ELSE Append(Digits(n \div 10), DigitChar(n % 10))

\* n rendered with at least w digits (the %0wd of a formatter)
Pad(n, w) ==
    LET ds == Digits(n)
    IN  IF Len(ds) >= w THEN ds ELSE [i \in 1..(w - Len(ds)) |-> "0"] \o ds

AllDigits(s) == \A i \in DOMAIN s : s[i] \in DigitChars

\* int(s) for a non-empty run of decimal digits
RECURSIVE DigitsToInt(_)
DigitsToInt(s) ==
    IF s = <<>> THEN 0
    ELSE 10 * DigitsToInt(SubSeq(s, 1, Len(s) - 1)) + DigitVal(s[Len(s)])

RECURSIVE Pow10(_)
Pow10(k) == IF k = 0 THEN 1 ELSE 10 * Pow10(k - 1)

\* str.strip(): whitespace removed at both ends
WhiteSpace == {" "}

RECURSIVE LStrip(_)
LStrip(s) ==
    IF s # <<>> /\ Head(s) \in WhiteSpace THEN LStrip(Tail(s)) ELSE s

RECURSIVE RStrip(_)
RStrip(s) ==
    IF s # <<>> /\ s[Len(s)] \in WhiteSpace
    THEN RStrip(SubSeq(s, 1, Len(s) - 1)) ELSE s

Strip(s) == RStrip(LStrip(s))

\* str.split(sep) for a one-character separator
RECURSIVE SplitFrom(_, _, _)
SplitFrom(s, sep, cur) ==
    IF s = <<>> THEN <<cur>>
    ELSE IF Head(s) = sep THEN <<cur>> \o SplitFrom(Tail(s), sep, <<>>)
    ELSE SplitFrom(Tail(s), sep, Append(cur, Head(s)))

Split(s, sep) == SplitFrom(s, sep, <<>>)

\* a parser that leaves the decimal comma in place
ReplaceNothing(s, a, b) == s

\* str.replace(a, b) for one-character a and b
Replace(s, a, b) == [i \in DOMAIN s |-> IF s[i] = a THEN b ELSE s[i]]

\* `pat in s`
Contains(s, pat) ==
    \E i \in 1..(Len(s) - Len(pat) + 1) : SubSeq(s, i, i + Len(pat) - 1) = pat

(***************************************************************************)
(* Civil time                                                              *)
(***************************************************************************)
IsLeap(y) == (y % 4 = 0 /\ y % 100 # 0) \/ y % 400 = 0

DaysInMonth(y, m) ==
    IF m = 2 THEN (IF IsLeap(y) THEN 29 ELSE 28)
    ELSE IF m \in {4, 6, 9, 11} THEN 30 ELSE 31

\* days from 1970-01-01 to the civil date y-m-d (proleptic Gregorian)
DaysFromCivil(y, m, d) ==
    LET yy  == IF m <= 2 THEN y - 1 ELSE y
        era == yy \div 400
        yoe == yy - era * 400
        mp  == IF m > 2 THEN m - 3 ELSE m + 9
        doy == (153 * mp + 2) \div 5 + d - 1
        doe == yoe * 365 + yoe \div 4 - yoe \div 100 + doy
    IN  era * 146097 + doe - 719468

\* datetime(y, mo, d, h, mi, s) accepts exactly these fields
ValidCivil(y, mo, d, h, mi, s) ==
    /\ y \in 1..9999
    /\ mo \in 1..12
    /\ d >= 1 /\ d <= DaysInMonth(y, mo)
    /\ h \in 0..23
    /\ mi \in 0..59
    /\ s \in 0..59

\* the instant of a civil time read as UTC: the day since 1970-01-01 and
\* the second of that day
CivilInstant(y, mo, d, h, mi, s) ==
    [day |-> DaysFromCivil(y, mo, d), sec |-> h * 3600 + mi * 60 + s]

\* the instant t plus a timedelta of delta seconds
PlusSeconds(t, delta) ==
    [day |-> t.day + (t.sec + delta) \div 86400, sec |-> (t.sec + delta) % 86400]

(***************************************************************************)
(* MeterReading and FileProcessingResult                                   *)
(***************************************************************************)
MeterReading(timestamp, value, reading_type, unit, quality, cldn) ==
    [timestamp |-> timestamp, value |-> value, reading_type |-> reading_type,
     unit |-> unit, quality |-> quality, cldn |-> cldn]

DefaultQuality == "1.4.9"

FileProcessingResult(success, readings, errors, warnings, channels_count) ==
    [success |-> success, readings |-> readings, errors |-> errors,
     warnings |-> warnings, channels_count |-> channels_count]

\* channels_count = None is held as -1
NoCount == -1

(***************************************************************************)
(* Canonical channel identifiers                                           *)
(***************************************************************************)
Ch73 == "0.0.4.1.15.1.12.0.0.0.0.2.0.0.0.0.73.0"
Ch74 == "0.0.4.1.15.1.12.0.0.0.0.2.0.0.0.0.74.0"
Ch75 == "0.0.4.1.15.1.12.0.0.0.0.2.0.0.0.0.75.0"
Ch76 == "0.0.4.1.15.1.12.0.0.0.0.2.0.0.0.0.76.0"
Ch77 == "0.0.4.1.15.1.12.0.0.0.0.2.0.0.0.0.77.0"
Ch78 == "0.0.4.1.15.1.12.0.0.0.0.2.0.0.0.0.78.0"
Ch79 == "0.0.4.1.15.1.12.0.0.0.0.2.0.0.0.0.79.0"
Ch80 == "0.0.4.1.15.1.12.0.0.0.0.2.0.0.0.0.80.0"
Ch81 == "0.0.4.1.15.1.12.0.0.0.0.2.0.0.0.0.81.0"
Ch82 == "0.0.4.1.15.1.12.0.0.0.0.2.0.0.0.0.82.0"
Ch83 == "0.0.4.1.15.1.12.0.0.0.0.2.0.0.0.0.83.0"
Ch84 == "0.0.4.1.15.1.12.0.0.0.0.2.0.0.0.0.84.0"
Ch90 == "0.0.4.1.15.1.12.0.0.0.0.2.0.0.0.0.90.0"
Ch91 == "0.0.4.1.15.1.12.0.0.0.0.2.0.0.0.0.91.0"
Ch92 == "0.0.4.1.15.1.12.0.0.0.0.2.0.0.0.0.92.0"
Ch93 == "0.0.4.1.15.1.12.0.0.0.0.2.0.0.0.0.93.0"
Ch94 == "0.0.4.1.15.1.12.0.0.0.0.2.0.0.0.0.94.0"
Ch95 == "0.0.4.1.15.1.12.0.0.0.0.2.0.0.0.0.95.0"
Ch96 == "0.0.4.1.15.1.12.0.0.0.0.2.0.0.0.0.96.0"

(***************************************************************************)
(* The channel registry: SummaryTableGenerator.obis_mapping, the unit      *)
(* ("unite") of every canonical channel it describes.                      *)
(***************************************************************************)
RegistryUnit ==
    (Ch73 :> "kWh") @@ (Ch74 :> "kWh") @@ (Ch75 :> "kWh") @@ (Ch76 :> "kWh") @@
    (Ch77 :> "kvarh") @@ (Ch78 :> "kvarh") @@ (Ch79 :> "kvarh") @@
    (Ch80 :> "kvarh") @@ (Ch81 :> "kvarh") @@ (Ch82 :> "kvarh") @@
    (Ch83 :> "kVAh") @@ (Ch84 :> "kVAh")

(***************************************************************************)
(* BlueLinkCSVParser                                                       *)
(***************************************************************************)
\* "1-0:<c>.8.<e>" as text
Dotted(c, e) ==
    <<"1", "-", "0", ":">> \o Digits(c) \o <<".", "8", ".">> \o Digits(e)

\* BlueLinkCSVParser.OBIS_MAPPING
CsvObisMapping ==
    (Dotted(1, 0) :> Ch73) @@ (Dotted(2, 0) :> Ch74) @@
    (Dotted(15, 0) :> Ch75) @@ (Dotted(16, 0) :> Ch76) @@
    (Dotted(5, 0) :> Ch77) @@ (Dotted(6, 0) :> Ch78) @@
    (Dotted(7, 0) :> Ch79) @@ (Dotted(8, 0) :> Ch80) @@
    (Dotted(3, 0) :> Ch81) @@ (Dotted(4, 0) :> Ch82) @@
    (Dotted(9, 0) :> Ch83) @@ (Dotted(10, 0) :> Ch84)

\* OBIS_MAPPING.get(obis_code, "")
CsvReadingType(obis_code) ==
    IF obis_code \in DOMAIN CsvObisMapping THEN CsvObisMapping[obis_code] ELSE ""

\* the unit expression of _parse_data_line: substring tests on the code
CsvUnit(obis_code) ==
    IF Contains(obis_code, <<"1", ".", "8", ".", "0">>) THEN "kWh"
    ELSE IF Contains(obis_code, <<"5", ".", "8", ".", "0">>)
            \/ Contains(obis_code, <<"6", ".", "8", ".", "0">>) THEN "kvarh"
    ELSE "kVAh"

\* the end (exclusive) of the longest run of digits of s that starts at p
RECURSIVE DigitRunEnd(_, _)
DigitRunEnd(s, p) ==
    IF p <= Len(s) /\ s[p] \in DigitChars THEN DigitRunEnd(s, p + 1) ELSE p

\* \d+ then the literal character lit, from p: the position after lit, or 0
RunThen(s, p, lit) ==
    IF p = 0 THEN 0
    ELSE LET e == DigitRunEnd(s, p)
         IN  IF e > p /\ e <= Len(s) /\ s[e] = lit THEN e + 1 ELSE 0

\* a match of \d+-\d+:\d+\.\d+\.\d+ that starts at p: its end (exclusive), or 0
MatchObisAt(s, p) ==
    LET q == RunThen(s, RunThen(s, RunThen(s, RunThen(s, p, "-"), ":"), "."), ".")
    IN  IF q = 0 THEN 0
        ELSE LET e == DigitRunEnd(s, q) IN IF e > q THEN e ELSE 0

\* re.findall(pattern, s) from position p: leftmost, non-overlapping
RECURSIVE FindAllObis(_, _)
FindAllObis(s, p) ==
    IF p > Len(s) THEN <<>>
    ELSE LET e == MatchObisAt(s, p)
         IN  IF e > 0 THEN <<SubSeq(s, p, e - 1)>> \o FindAllObis(s, e)
             ELSE FindAllObis(s, p + 1)

\* _extract_obis_codes
ExtractObisCodes(header_line) == FindAllObis(header_line, 1)

\* float(s), for text over digits, '.', '-', '+', ' ' and letters other than
\* those of an exponent, "inf" or "nan": the value in thousandths, or failure
ParseFloat(str) ==
    LET s    == Strip(str)
        neg  == s # <<>> /\ Head(s) = "-"
        body == IF s # <<>> /\ Head(s) \in {"-", "+"} THEN Tail(s) ELSE s
        dots == {i \in DOMAIN body : body[i] = "."}
        dot  == IF dots = {} THEN Len(body) + 1 ELSE CHOOSE i \in dots : TRUE
        ip   == SubSeq(body, 1, dot - 1)
        fp   == SubSeq(body, dot + 1, Len(body))
        ok   == /\ Cardinality(dots) <= 1
                /\ AllDigits(ip) /\ AllDigits(fp)
                /\ Len(ip) + Len(fp) >= 1
        mag  == (DigitsToInt(ip \o fp) * 1000) \div Pow10(Len(fp))
    IN  IF ok THEN [ok |-> TRUE, value |-> IF neg THEN 0 - mag ELSE mag]
        ELSE [ok |-> FALSE]

NonEmpty(parts) == SelectSeq(parts, LAMBDA x : x # <<>>)

\* a run of one or two digits whose value lies in lo..hi (a strptime field)
FieldIn(run, lo, hi) ==
    /\ Len(run) \in {1, 2}
    /\ AllDigits(run)
    /\ DigitsToInt(run) >= lo /\ DigitsToInt(run) <= hi

\* datetime.strptime(s, "%d/%m/%Y %H:%M:%S").replace(tzinfo=timezone.utc)
Strptime(s) ==
    LET halves == NonEmpty(Split(s, " "))
        date   == IF Len(halves) = 2 THEN Split(halves[1], "/") ELSE <<>>
        time   == IF Len(halves) = 2 THEN Split(halves[2], ":") ELSE <<>>
        shaped == /\ Len(halves) = 2 /\ Len(date) = 3 /\ Len(time) = 3
                  /\ s # <<>> /\ Head(s) # " " /\ s[Len(s)] # " "
                  /\ FieldIn(date[1], 1, 31) /\ FieldIn(date[2], 1, 12)
                  /\ Len(date[3]) = 4 /\ AllDigits(date[3])
                  /\ FieldIn(time[1], 0, 23) /\ FieldIn(time[2], 0, 59)
                  /\ FieldIn(time[3], 0, 61)
    IN  IF shaped /\ ValidCivil(DigitsToInt(date[3]), DigitsToInt(date[2]),
                                DigitsToInt(date[1]), DigitsToInt(time[1]),
                                DigitsToInt(time[2]), DigitsToInt(time[3]))
        THEN [ok |-> TRUE,
              timestamp |-> CivilInstant(DigitsToInt(date[3]), DigitsToInt(date[2]),
                                         DigitsToInt(date[1]), DigitsToInt(time[1]),
                                         DigitsToInt(time[2]), DigitsToInt(time[3]))]
        ELSE [ok |-> FALSE]

\* the loop over obis_codes of _parse_data_line, from code number k
RECURSIVE CsvCellReadings(_, _, _, _, _)
CsvCellReadings(parts, obis_codes, cldn, timestamp, k) ==
    IF k > Len(obis_codes) THEN <<>>
    ELSE LET obis_code    == obis_codes[k]
             value        == IF k + 1 <= Len(parts)
                             THEN ParseFloat(Replace(parts[k + 1], ",", "."))
                             ELSE [ok |-> FALSE]
             reading_type == CsvReadingType(obis_code)
             here == IF value.ok /\ reading_type # ""
                     THEN <<MeterReading(timestamp, value.value, reading_type,
                                         CsvUnit(obis_code), DefaultQuality, cldn)>>
                     ELSE <<>>
         IN  here \o CsvCellReadings(parts, obis_codes, cldn, timestamp, k + 1)

\* _parse_data_line: the readings of one line, or the ValueError it raises
ParseDataLine(line, obis_codes, cldn) ==
    LET split == Split(line, ";")
        parts == [i \in DOMAIN split |-> Strip(split[i])]
        ts    == Strptime(parts[1])
    IN  IF Len(parts) < 2 THEN [ok |-> FALSE, error |-> "Ligne mal formatee"]
        ELSE IF ~ts.ok THEN [ok |-> FALSE, error |-> "Format de date invalide"]
        ELSE [ok |-> TRUE,
              readings |-> CsvCellReadings(parts, obis_codes, cldn, ts.timestamp, 1)]

\* _handle_utf8_bom: one leading byte-order mark is removed
Bom == "BOM"

HandleUtf8Bom(content) ==
    IF content # <<>> /\ content[1] # <<>> /\ content[1][1] = Bom
    THEN [content EXCEPT ![1] = Tail(content[1])]
    ELSE content

IsBlank(line) == Strip(line) = <<>>

RECURSIVE DropBlankHead(_)
DropBlankHead(lines) ==
    IF lines # <<>> /\ IsBlank(Head(lines)) THEN DropBlankHead(Tail(lines))
    ELSE lines

RECURSIVE DropBlankTail(_)
DropBlankTail(lines) ==
    IF lines # <<>> /\ IsBlank(lines[Len(lines)])
    THEN DropBlankTail(SubSeq(lines, 1, Len(lines) - 1))
    ELSE lines

\* content.strip().split('\n'), content being given as its lines
StripSplitLines(content) ==
    LET kept == DropBlankTail(DropBlankHead(content))
    IN  IF kept = <<>> THEN << <<>> >>
        ELSE [i \in DOMAIN kept |->
                 IF i = 1 /\ i = Len(kept) THEN Strip(kept[i])
                 ELSE IF i = 1 THEN LStrip(kept[i])
                 ELSE IF i = Len(kept) THEN RStrip(kept[i])
                 ELSE kept[i]]

\* an error message of parse: "Ligne <line>: <msg>" for a data line, and a
\* message about the whole file with line 0
CsvError(line, msg) == [line |-> line, msg |-> msg]

\* the data loop of parse (lines 4+): readings and errors, from line number i
RECURSIVE CsvDataLoop(_, _, _, _)
CsvDataLoop(lines, obis_codes, cldn, i) ==
    IF i > Len(lines) THEN [readings |-> <<>>, errors |-> <<>>]
    ELSE LET one  == ParseDataLine(lines[i], obis_codes, cldn)
             rest == CsvDataLoop(lines, obis_codes, cldn, i + 1)
         IN  IF one.ok
             THEN [readings |-> one.readings \o rest.readings, errors |-> rest.errors]
             ELSE [readings |-> rest.readings,
                   errors |-> <<CsvError(i, one.error)>> \o rest.errors]

NoReadingsWarning == "Aucune lecture valide trouvee"

\* the final return of parse
CsvReturn(readings, errors, warnings) ==
    FileProcessingResult(Len(errors) = 0, readings, errors, warnings, NoCount)

\* the return of parse after its data loop
CsvFinish(data) ==
    CsvReturn(data.readings, data.errors,
              IF data.readings = <<>> THEN <<NoReadingsWarning>> ELSE <<>>)

\* parse, given the lines, the identifier of line 1 and the codes of line 3
CsvParseLines(lines, cldn, obis_codes) ==
    IF Len(lines) < 3
    THEN FileProcessingResult(FALSE, <<>>, <<CsvError(0, "Fichier CSV trop court")>>, <<>>, NoCount)
    ELSE IF cldn = <<>>
    THEN FileProcessingResult(FALSE, <<>>, <<CsvError(0, "CLDN manquant")>>, <<>>, NoCount)
    ELSE IF obis_codes = <<>>
    THEN FileProcessingResult(FALSE, <<>>, <<CsvError(0, "Codes OBIS non trouves")>>, <<>>, NoCount)
    ELSE CsvFinish(CsvDataLoop(lines, obis_codes, cldn, 4))

CsvParseSplit(lines) == CsvParseLines(lines, Strip(lines[1]), ExtractObisCodes(lines[3]))

\* BlueLinkCSVParser.parse
CsvParse(content) == CsvParseSplit(StripSplitLines(HandleUtf8Bom(content)))

(***************************************************************************)
(* Synthetic tabular files.  A file is rendered from an identifier, a      *)
(* header of OBIS codes and rows; a data row is rendered from a civil      *)
(* time and one value (in hundredths) per header code, the way a meter     *)
(* export writes them: DD/MM/YYYY HH:MM:SS;12,34;56,78.                    *)
(***************************************************************************)
MaxRows == 2

Civil(y, mo, d, h, mi, s) == [y |-> y, mo |-> mo, d |-> d, h |-> h, mi |-> mi, s |-> s]

GenTimes == {Civil(2025, 8, 26, 0, 15, 0), Civil(2024, 2, 29, 23, 45, 0)}

BadTime == Civil(2025, 2, 31, 0, 15, 0)

GenValues == {1234, 5}

\* 1-0:1.8.1 is a code the tabular mapping does not know
GenHeaders ==
    { <<>>,
      <<Dotted(1, 0)>>,
      <<Dotted(1, 0), Dotted(2, 0)>>,
      <<Dotted(5, 0), Dotted(1, 1)>>,
      <<Dotted(9, 0), Dotted(7, 0)>> }

GenIds == { <<"M", "1">>, <<>> }

\* blank: empty lines before the identifier line; cut: the file ends after
\* its second line; sep: the decimal separator the values are written with
GenShapes ==
    { [blank |-> 0, bom |-> FALSE, cut |-> FALSE, sep |-> ","],
      [blank |-> 0, bom |-> TRUE,  cut |-> FALSE, sep |-> "."],
      [blank |-> 1, bom |-> FALSE, cut |-> FALSE, sep |-> ","],
      [blank |-> 0, bom |-> FALSE, cut |-> TRUE,  sep |-> ","] }

GenRows(n) ==
    {[kind |-> "data", ts |-> t, vals |-> v] : t \in GenTimes, v \in SeqOfLen(GenValues, n)}
    \cup {[kind |-> "garbage"], [kind |-> "baddate"], [kind |-> "nonnum"]}

GenFiles ==
    UNION {{[shape |-> sh, id |-> id, header |-> h, rows |-> rs] :
                sh \in GenShapes, id \in GenIds, rs \in SeqUpTo(GenRows(Len(h)), MaxRows)}
           : h \in GenHeaders}

RenderTime(t) ==
    Pad(t.d, 2) \o <<"/">> \o Pad(t.mo, 2) \o <<"/">> \o Pad(t.y, 4) \o <<" ">>
    \o Pad(t.h, 2) \o <<":">> \o Pad(t.mi, 2) \o <<":">> \o Pad(t.s, 2)

RenderValue(v, sep) == Digits(v \div 100) \o <<sep>> \o Pad(v % 100, 2)

RenderCells(vals, sep) ==
    SeqConcat([i \in DOMAIN vals |-> <<";">> \o RenderValue(vals[i], sep)])

RenderRow(row, n, sep) ==
    CASE row.kind = "data"    -> RenderTime(row.ts) \o RenderCells(row.vals, sep)
      [] row.kind = "garbage" -> <<"x", "x">>
      [] row.kind = "baddate" ->
             RenderTime(BadTime) \o RenderCells([i \in 1..n |-> 1234], sep)
      [] row.kind = "nonnum"  ->
             RenderTime(Civil(2025, 8, 26, 0, 30, 0)) \o <<";", "x">>
             \o RenderCells([i \in 1..(n - 1) |-> 1234], sep)

RenderHeader(h) == <<"D">> \o SeqConcat([i \in DOMAIN h |-> <<";">> \o h[i]])

\* the text of the file, as the lines between its line breaks; the file ends
\* with a line break, so the last line is empty
RenderFile(f) ==
    [i \in 1..f.shape.blank |-> <<>>]
    \o << (IF f.shape.bom THEN <<Bom>> ELSE <<>>) \o f.id >>
    \o << <<"t">> >>
    \o (IF f.shape.cut THEN <<>>
        ELSE << RenderHeader(f.header) >>
             \o [i \in DOMAIN f.rows |->
                    RenderRow(f.rows[i], Len(f.header), f.shape.sep)])
    \o << <<>> >>

(***************************************************************************)
(* The tabular specification: a file is submitted, parsed, and its result   *)
(* collected.                                                              *)
(***************************************************************************)
CsvIdle ==
    /\ csvGen = NoFile
    /\ csvContent = <<>>
    /\ csvResult = NoResult

TsIdle ==
    /\ tsGen = NoFile
    /\ tsHex = <<>>
    /\ tsOut = NoResult

XmlIdle ==
    /\ xmlGen = NoFile
    /\ xmlNow = NoResult
    /\ xmlResult = NoResult
    /\ xmlOrigin = <<>>

NoOp == [op |-> "none", file |-> 0]

AudIdle ==
    /\ audFiles = <<>>
    /\ audOp = NoOp
    /\ audOut = NoResult

\* no operation of the FileProcessor has run
NoCalls == [op |-> "none", parsers |-> <<>>]

FpIdle ==
    /\ fpGen = NoFile
    /\ fpNows = <<>>
    /\ fpOut = <<>>
    /\ fpCalls = NoCalls

BatIdle ==
    /\ batFiles = <<>>
    /\ batForce = <<>>
    /\ batDone = 0
    /\ batResults = <<>>
    /\ batParsed = <<>>

\* the workers that share one FileProcessor
Workers == {1, 2}

WkIdle ==
    /\ wkJobs = [w \in Workers |-> <<>>]
    /\ wkOut = [w \in Workers |-> <<>>]
    /\ wkClock = 1

\* nothing has been submitted to any component
\* no export has been asked for
NoExport == [none |-> TRUE]

ExpIdle ==
    /\ expIn = NoExport
    /\ expOut = NoExport

\* no call has been made
NoCall == [none |-> TRUE]

\* the cache is empty when the module is loaded
VisIdle ==
    /\ visCache = <<>>
    /\ visCall = NoCall
    /\ visOut = NoCall

\* no quantity is being looked up
NoLookup == [none |-> TRUE]

ObIdle ==
    /\ obCode = NoLookup
    /\ obFound = NoLookup

Idle ==
    /\ CsvIdle /\ TsIdle /\ XmlIdle /\ AudIdle /\ FpIdle /\ BatIdle /\ WkIdle
    /\ ExpIdle /\ VisIdle /\ ObIdle

CsvInit == Idle

CsvSubmit ==
    /\ csvGen = NoFile
    /\ \E f \in GenFiles :
          /\ csvGen' = f
          /\ csvContent' = RenderFile(f)
    /\ csvResult' = NoResult
    /\ UNCHANGED NotCsv

CsvParseFile ==
    /\ csvGen # NoFile
    /\ csvResult = NoResult
    /\ csvResult' = CsvParse(csvContent)
    /\ UNCHANGED <<csvGen, csvContent, NotCsv>>

\* the caller takes the result; the parser keeps nothing of the file
CsvCollect ==
    /\ csvResult # NoResult
    /\ csvGen' = NoFile
    /\ csvContent' = <<>>
    /\ csvResult' = NoResult
    /\ UNCHANGED NotCsv

CsvNext == CsvSubmit \/ CsvParseFile \/ CsvCollect

SpecCSV == CsvInit /\ [][CsvNext]_vars

(***************************************************************************)
(* Claims about the tabular parser                                         *)
(***************************************************************************)
CsvParsed == csvResult # NoResult

\* the file has an identifier on line 1, a header with codes on line 3 and
\* is not cut short: nothing is wrong with it at the file level
CsvFileLevelOk ==
    /\ CsvParsed
    /\ csvGen.shape.blank = 0 /\ ~csvGen.shape.cut
    /\ csvGen.id # <<>> /\ csvGen.header # <<>>

CsvAllRowsData == \A i \in DOMAIN csvGen.rows : csvGen.rows[i].kind = "data"

(* C1: every reading a parser emits has a channel_id the channel registry
   describes, and the registry's unit for that channel is the reading's
   unit.  Stated here for the readings of the tabular parser. *)
C1_RegistryUnitAgrees ==
    CsvParsed =>
        \A i \in DOMAIN csvResult.readings :
            LET r == csvResult.readings[i]
            IN  /\ r.reading_type \in DOMAIN RegistryUnit
                /\ RegistryUnit[r.reading_type] = r.unit

(* C8: a row-level problem (a malformed row, a bad row timestamp, a
   non-numeric cell, an unmapped code) never makes success false: a file
   with nothing wrong at the file level is returned with success = true. *)
C8_RowProblemsKeepSuccess ==
    CsvFileLevelOk => csvResult.success = TRUE

\* the three returns parse makes before it reads a data row
CsvEarlyErrors ==
    { <<CsvError(0, "Fichier CSV trop court")>>, <<CsvError(0, "CLDN manquant")>>,
      <<CsvError(0, "Codes OBIS non trouves")>> }

CsvRejectedEarly == csvResult.success = FALSE /\ csvResult.errors \in CsvEarlyErrors

\* what the claim lists: fewer than three lines, an empty line 1, or a line 3
\* without a dotted OBIS code (with a blank line in front, line 3 is the
\* free-text line)
CsvClaimedReject ==
    \/ csvGen.shape.cut
    \/ csvGen.shape.blank > 0
    \/ csvGen.id = <<>>
    \/ csvGen.header = <<>>

(* C9: parse returns success = false with no readings whenever the input
   has fewer than three lines, an empty line 1 or no dotted OBIS code on
   line 3, and rejects a file before reading its data rows only then. *)
C9_RejectsExactlyMalformedHeads ==
    CsvParsed =>
        /\ CsvClaimedReject =>
               (csvResult.success = FALSE /\ csvResult.readings = <<>>)
        /\ CsvRejectedEarly => CsvClaimedReject

\* the (timestamp, value) of every cell of the columns cols, row by row;
\* a value in hundredths is ten times as many thousandths
TabularCells(f, cols) ==
    SeqConcat([i \in DOMAIN f.rows |->
        [j \in DOMAIN cols |->
            [timestamp |-> CivilInstant(f.rows[i].ts.y, f.rows[i].ts.mo, f.rows[i].ts.d,
                                        f.rows[i].ts.h, f.rows[i].ts.mi, f.rows[i].ts.s),
             value     |-> f.rows[i].vals[cols[j]] * 10,
             code      |-> f.header[cols[j]]]]])

AllColumns(f) == [k \in DOMAIN f.header |-> k]

\* the columns whose code the tabular OBIS_MAPPING knows, in header order
RECURSIVE MappedColumnsFrom(_, _)
MappedColumnsFrom(f, k) ==
    IF k > Len(f.header) THEN <<>>
    ELSE (IF f.header[k] \in DOMAIN CsvObisMapping THEN <<k>> ELSE <<>>)
         \o MappedColumnsFrom(f, k + 1)

MappedColumns(f) == MappedColumnsFrom(f, 1)

ReadingsMatchCells(readings, cells) ==
    /\ Len(readings) = Len(cells)
    /\ \A i \in DOMAIN cells :
          /\ readings[i].timestamp = cells[i].timestamp
          /\ readings[i].value = cells[i].value

(* C10 as stated: for a synthetic file of N rows, each with a timestamp and
   one numeric cell per header code, the parser yields N readings for every
   OBIS column of the header, with the cell's value and the row's civil
   time read as UTC. *)
C10_RoundTripEveryColumn ==
    (CsvFileLevelOk /\ CsvAllRowsData) =>
        ReadingsMatchCells(csvResult.readings, TabularCells(csvGen, AllColumns(csvGen)))

(* C10 as amended: the parser yields N readings for every header column
   whose code is in the tabular OBIS_MAPPING and none for any other column;
   the reading of row i and mapped column k carries the cell's value, the
   row's civil time read as UTC with no offset, and the channel the mapping
   gives the code; the file is returned with success = true. *)
C10_RoundTripMappedColumns ==
    (CsvFileLevelOk /\ CsvAllRowsData) =>
        LET cells == TabularCells(csvGen, MappedColumns(csvGen))
        IN  /\ csvResult.success = TRUE
            /\ ReadingsMatchCells(csvResult.readings, cells)
            /\ \A i \in DOMAIN cells :
                  csvResult.readings[i].reading_type = CsvObisMapping[cells[i].code]

\* a parsed two-row file with one mapped and one unmapped column
C10_Witness ==
    /\ CsvFileLevelOk /\ CsvAllRowsData
    /\ Len(csvGen.rows) = 2
    /\ csvGen.header = <<Dotted(5, 0), Dotted(1, 1)>>
    /\ csvGen.shape.sep = ","
    /\ Len(csvResult.readings) = 2
    /\ csvResult.readings[1].value = csvGen.rows[1].vals[1] * 10

(***************************************************************************)
(* MAP110XMLParser._decode_profile_timestamp                               *)
(***************************************************************************)
HexChars ==
    DigitChars \cup {"A", "B", "C", "D", "E", "F", "a", "b", "c", "d", "e", "f"}

HexVal(c) ==
    CASE c \in DigitChars -> DigitVal(c)
      [] c \in {"A", "a"} -> 10 [] c \in {"B", "b"} -> 11 [] c \in {"C", "c"} -> 12
      [] c \in {"D", "d"} -> 13 [] c \in {"E", "e"} -> 14 [] c \in {"F", "f"} -> 15

AllHex(s) == \A i \in DOMAIN s : s[i] \in HexChars

\* int(s, 16) for a non-empty run of hexadecimal digits
RECURSIVE HexToInt(_)
HexToInt(s) ==
    IF s = <<>> THEN 0
    ELSE 16 * HexToInt(SubSeq(s, 1, Len(s) - 1)) + HexVal(s[Len(s)])

\* octets 9-10 read as an unsigned 16-bit integer
DeviationUnsigned(deviation_raw) == deviation_raw

\* octets 9-10 read as a signed 16-bit integer
DeviationMinutes(deviation_raw) ==
    IF deviation_raw > 32767 THEN deviation_raw - 65536 ELSE deviation_raw

\* the days a datetime can hold: 0001-01-01 .. 9999-12-31
DatetimeMin == DaysFromCivil(1, 1, 1)

DatetimeMax == DaysFromCivil(9999, 12, 31)

\* _decode_profile_timestamp; now is what datetime.now(timezone.utc) returns
\* when the except branch is taken
DecodeProfileTimestamp(hex_timestamp, now) ==
    IF Len(hex_timestamp) < 24 THEN now
    ELSE
      LET year_hex      == SubSeq(hex_timestamp, 1, 4)
          month_hex     == SubSeq(hex_timestamp, 5, 6)
          day_hex       == SubSeq(hex_timestamp, 7, 8)
          hour_hex      == SubSeq(hex_timestamp, 11, 12)
          minute_hex    == SubSeq(hex_timestamp, 13, 14)
          second_hex    == SubSeq(hex_timestamp, 15, 16)
          centi_hex     == SubSeq(hex_timestamp, 17, 18)
          deviation_hex == SubSeq(hex_timestamp, 19, 22)
          status_hex    == SubSeq(hex_timestamp, 23, 24)
          parsed == AllHex(year_hex \o month_hex \o day_hex \o hour_hex \o minute_hex
                           \o second_hex \o centi_hex \o deviation_hex \o status_hex)
          year   == HexToInt(year_hex)
          month  == HexToInt(month_hex)
          day    == HexToInt(day_hex)
          hour   == HexToInt(hour_hex)
          minute == HexToInt(minute_hex)
          second == HexToInt(second_hex)
          deviation_minutes == DeviationMinutes(HexToInt(deviation_hex))
          timestamp_local == CivilInstant(year, month, day, hour, minute, second)
          timestamp_utc   == PlusSeconds(timestamp_local, 0 - deviation_minutes * 60)
      IN  IF ~parsed THEN now
          ELSE IF ~ValidCivil(year, month, day, hour, minute, second) THEN now
          ELSE IF timestamp_utc.day < DatetimeMin \/ timestamp_utc.day > DatetimeMax
               THEN now
          ELSE timestamp_utc

(***************************************************************************)
(* DLMS date-times for the decoder: the 12 octets of a date-time rendered  *)
(* as 24 hexadecimal characters, and damaged variants of them.             *)
(***************************************************************************)
HexChar(v) ==
    IF v < 10 THEN DigitChar(v)
    ELSE CASE v = 10 -> "A" [] v = 11 -> "B" [] v = 12 -> "C"
           [] v = 13 -> "D" [] v = 14 -> "E" [] v = 15 -> "F"

\* v as w hexadecimal characters, most significant first
RECURSIVE ToHex(_, _)
ToHex(v, w) ==
    IF w = 0 THEN <<>> ELSE Append(ToHex(v \div 16, w - 1), HexChar(v % 16))

Dlms(y, mo, d, dow, h, mi, s, hund, dev, status) ==
    [y |-> y, mo |-> mo, d |-> d, dow |-> dow, h |-> h, mi |-> mi, s |-> s,
     hund |-> hund, dev |-> dev, status |-> status]

\* the octet string of a date-time; a negative deviation in two's complement
EncodeDlms(t) ==
    ToHex(t.y, 4) \o ToHex(t.mo, 2) \o ToHex(t.d, 2) \o ToHex(t.dow, 2)
    \o ToHex(t.h, 2) \o ToHex(t.mi, 2) \o ToHex(t.s, 2) \o ToHex(t.hund, 2)
    \o ToHex((t.dev + 65536) % 65536, 4) \o ToHex(t.status, 2)

\* local 2023-07-10T17:30:00, deviation -120 min, clock status 0x80
ExampleDlms == Dlms(2023, 7, 10, 1, 17, 30, 0, 0, -120, 128)

\* 07E7070A01111E0000FF8880
ExampleHex ==
    <<"0", "7", "E", "7", "0", "7", "0", "A", "0", "1", "1", "1",
      "1", "E", "0", "0", "0", "0", "F", "F", "8", "8", "8", "0">>

\* 2023-07-10T19:30:00Z
ExampleInstant == CivilInstant(2023, 7, 10, 19, 30, 0)

GenDlms ==
    {Dlms(y, mo, d, dow, h, 30, s, hund, dev, status) :
        y \in {1969, 2023, 2024, 2101}, mo \in {2, 7, 13}, d \in {10, 29, 31},
        dow \in {1, 255}, h \in {0, 17, 24}, s \in {0, 59}, hund \in {0, 99},
        dev \in {-32768, -120, 0, 60}, status \in {0, 16, 128}}

\* what reaches the decoder: a date-time as it is, cut short, with a
\* character that is no hexadecimal digit, or followed by further characters
Damages == {"none", "short", "nonhex", "long"}

Damage(hex, damage) ==
    CASE damage = "none"   -> hex
      [] damage = "short"  -> SubSeq(hex, 1, 16)
      [] damage = "nonhex" -> [hex EXCEPT ![6] = "Z"]
      [] damage = "long"   -> hex \o <<"0", "0">>

\* values datetime.now(timezone.utc) may return during a decode
Nows == {CivilInstant(2026, 11, 2, 9, 0, 0), CivilInstant(2026, 11, 2, 9, 0, 1)}

(***************************************************************************)
(* The date-time specification: an octet string is submitted, decoded, and *)
(* the instant collected.                                                  *)
(***************************************************************************)
TsInit == Idle

TsSubmit ==
    /\ tsGen = NoFile
    /\ \E t \in GenDlms :
          /\ tsGen' = [fields |-> t, damage |-> "none"]
          /\ tsHex' = EncodeDlms(t)
    /\ tsOut' = NoResult
    /\ UNCHANGED NotTs

TsSubmitDamaged ==
    /\ tsGen = NoFile
    /\ \E damage \in Damages \ {"none"} :
          /\ tsGen' = [fields |-> ExampleDlms, damage |-> damage]
          /\ tsHex' = Damage(EncodeDlms(ExampleDlms), damage)
    /\ tsOut' = NoResult
    /\ UNCHANGED NotTs

TsDecode ==
    /\ tsGen # NoFile
    /\ tsOut = NoResult
    /\ \E now \in Nows : tsOut' = DecodeProfileTimestamp(tsHex, now)
    /\ UNCHANGED <<tsGen, tsHex, NotTs>>

TsCollect ==
    /\ tsOut # NoResult
    /\ tsGen' = NoFile
    /\ tsHex' = <<>>
    /\ tsOut' = NoResult
    /\ UNCHANGED NotTs

TsNext == TsSubmit \/ TsSubmitDamaged \/ TsDecode \/ TsCollect

SpecTS == TsInit /\ [][TsNext]_vars

(***************************************************************************)
(* Claims about the date-time decoder                                      *)
(***************************************************************************)
TsDecoded == tsOut # NoResult

\* the civil fields are a date and a time of day that exist
TsInRange ==
    ValidCivil(tsGen.fields.y, tsGen.fields.mo, tsGen.fields.d,
               tsGen.fields.h, tsGen.fields.mi, tsGen.fields.s)

TsLocal ==
    CivilInstant(tsGen.fields.y, tsGen.fields.mo, tsGen.fields.d,
                 tsGen.fields.h, tsGen.fields.mi, tsGen.fields.s)

(* C3: a 12-octet DLMS date-time with in-range civil fields decodes to the
   instant (local civil time) - (deviation minutes), the deviation being
   octets 9-10 read as a signed 16-bit integer; day of week, hundredths and
   clock status have no influence; 07E7070A01111E0000FF8880 decodes to
   2023-07-10T19:30:00Z. *)
C3_DecodeSubtractsSignedDeviation ==
    TsDecoded =>
        /\ (tsGen.damage \in {"none", "long"} /\ TsInRange) =>
               tsOut = PlusSeconds(TsLocal, 0 - tsGen.fields.dev * 60)
        /\ tsHex = ExampleHex => tsOut = ExampleInstant

\* the example octet string has been decoded, with its negative deviation
C3_Witness ==
    /\ TsDecoded
    /\ tsHex = ExampleHex
    /\ tsGen.fields.dev < 0
    /\ tsGen.fields.status = 128
    /\ tsOut = [day |-> 19548, sec |-> 70200]

(***************************************************************************)
(* MAP110XMLParser: logical names, OBIS_MAPPING and OBIS_DECODER           *)
(***************************************************************************)
\* the logical name 0100<c><d><e>FF of the OBIS code 1-0:c.d.e
LN(c, d, e) ==
    <<"0", "1", "0", "0">> \o ToHex(c, 2) \o ToHex(d, 2) \o ToHex(e, 2) \o <<"F", "F">>

\* 0000010000FF, the clock
ClockName == <<"0", "0", "0", "0">> \o ToHex(1, 2) \o ToHex(0, 2) \o ToHex(0, 2) \o <<"F", "F">>

\* 0000600A01FF, the EDIS status word
StatusName == <<"0", "0", "0", "0">> \o ToHex(96, 2) \o ToHex(10, 2) \o ToHex(1, 2) \o <<"F", "F">>

\* MAP110XMLParser.OBIS_MAPPING
XmlObisMapping ==
    (LN(1, 8, 0) :> Ch73) @@ (LN(2, 8, 0) :> Ch74) @@
    (LN(1, 8, 1) :> Ch75) @@ (LN(1, 8, 2) :> Ch75) @@
    (LN(2, 8, 1) :> Ch76) @@ (LN(2, 8, 2) :> Ch76) @@
    (LN(5, 8, 0) :> Ch77) @@ (LN(6, 8, 0) :> Ch78) @@
    (LN(5, 8, 1) :> Ch79) @@ (LN(5, 8, 2) :> Ch79) @@
    (LN(6, 8, 1) :> Ch80) @@ (LN(6, 8, 2) :> Ch80) @@
    (LN(7, 8, 0) :> Ch81) @@ (LN(8, 8, 0) :> Ch82) @@
    (LN(7, 8, 1) :> Ch81) @@ (LN(7, 8, 2) :> Ch81) @@
    (LN(8, 8, 1) :> Ch82) @@ (LN(8, 8, 2) :> Ch82) @@
    (LN(99, 1, 0) :> Ch73) @@ (LN(99, 2, 0) :> Ch73) @@
    (LN(99, 3, 0) :> Ch73) @@ (LN(99, 128, 0) :> Ch73) @@
    (LN(32, 24, 0) :> Ch90) @@ (LN(52, 24, 0) :> Ch91) @@ (LN(72, 24, 0) :> Ch92) @@
    (LN(14, 24, 0) :> Ch93) @@
    (LN(31, 24, 0) :> Ch94) @@ (LN(51, 24, 0) :> Ch95) @@ (LN(71, 24, 0) :> Ch96)

\* OBIS_DECODER[logical_name]["unite"]
XmlDecoderUnit ==
    [n \in {LN(1, 8, 0), LN(2, 8, 0), LN(1, 8, 1), LN(1, 8, 2), LN(2, 8, 1), LN(2, 8, 2),
            LN(99, 1, 0), LN(99, 2, 0), LN(99, 3, 0), LN(99, 128, 0)} |-> "kWh"] @@
    [n \in {LN(5, 8, 0), LN(6, 8, 0), LN(5, 8, 1), LN(5, 8, 2), LN(6, 8, 1), LN(6, 8, 2),
            LN(7, 8, 0), LN(8, 8, 0), LN(7, 8, 1), LN(7, 8, 2), LN(8, 8, 1), LN(8, 8, 2)}
        |-> "kvarh"] @@
    [n \in {LN(32, 24, 0), LN(52, 24, 0), LN(72, 24, 0)} |-> "V"] @@
    [n \in {LN(14, 24, 0)} |-> "Hz"] @@
    [n \in {LN(31, 24, 0), LN(51, 24, 0), LN(71, 24, 0)} |-> "A"]

\* "no reading type": what _get_reading_type_from_logical_name returns as None
NoType == ""

\* re.fullmatch(r"010063[0-9A-Fa-f]{2}00FF", logical_name)
IsLoadProfileName(logical_name) ==
    /\ Len(logical_name) = 12
    /\ SubSeq(logical_name, 1, 6) = <<"0", "1", "0", "0", "6", "3">>
    /\ AllHex(SubSeq(logical_name, 7, 8))
    /\ SubSeq(logical_name, 9, 12) = <<"0", "0", "F", "F">>

\* _get_reading_type_from_logical_name
GetReadingTypeFromLogicalName(logical_name) ==
    IF logical_name = <<>> THEN NoType
    ELSE IF logical_name \in DOMAIN XmlObisMapping THEN XmlObisMapping[logical_name]
    ELSE IF IsLoadProfileName(logical_name) THEN Ch73
    ELSE NoType

\* int(s) for text over digits and letters: the integer, or failure
ParseInt(s) ==
    IF s # <<>> /\ AllDigits(s) THEN [ok |-> TRUE, value |-> DigitsToInt(s)]
    ELSE [ok |-> FALSE]

\* int(s, 16) for text over digits and letters: the integer, or failure
ParseHex(s) ==
    IF s # <<>> /\ AllHex(s) THEN [ok |-> TRUE, value |-> HexToInt(s)]
    ELSE [ok |-> FALSE]

(***************************************************************************)
(* MAP110XMLParser: the document                                           *)
(*                                                                         *)
(* A document is held as what ElementTree finds in it:                     *)
(*   ddid, dds  the text of MAPInfos/DDID and the DDID attribute of DDs    *)
(*              (empty when absent)                                        *)
(*   subset     the DDSubset attribute of DDs (empty when absent)          *)
(*   stamp      the instant of MAPInfos/ModificationDateTime, if it has one*)
(*   objects    the Objects elements, in document order, each with its     *)
(*              ObjectLogicalName, its ClassID, the field <attr>.0 of its  *)
(*              value or CurrentValue attribute, the logical_name fields   *)
(*              of its capture_objects attribute and the Struct fields of  *)
(*              its buffer attribute with their child fields               *)
(* An absent FieldValue is the empty text: the code treats both alike.  A  *)
(* child field is held with the last segment of its FieldName as idx.      *)
(***************************************************************************)
Zeros16 == [i \in 1..16 |-> "0"]

\* a data point together with the place in the document it was read from
Sourced(point, kind, obj, rec, idx) ==
    [point |-> point, src |-> [kind |-> kind, obj |-> obj, rec |-> rec, idx |-> idx]]

\* _extract_cldn; the empty text stands for None
ExtractCldn(doc) ==
    IF doc.ddid # <<>> THEN Strip(doc.ddid)
    ELSE IF doc.dds # <<>> THEN Strip(doc.dds)
    ELSE <<>>

\* _extract_file_timestamp
ExtractFileTimestamp(doc, now) == IF doc.stamp.present THEN doc.stamp.at ELSE now

\* _detect_file_type
DetectFileType(doc) == IF doc.subset # "" THEN doc.subset ELSE "Unknown"

\* the conversion of a billing field, by field type
BillingValue(field_type, field_value) ==
    IF field_type \in {"UInt32", "UInt16", "UInt8", "Int32", "Int16", "Int8"}
    THEN ParseInt(field_value)
    ELSE IF field_type = "OctetString" /\ Len(field_value) > 8 THEN ParseHex(field_value)
    ELSE ParseInt(field_value)

\* _extract_billing_values: the data point of object number i, if it has one
BillingOfObject(obj, i) ==
    LET decimal_value == BillingValue(obj.value.ftype, obj.value.fvalue)
    IN  IF /\ obj.logical_name # <<>>
           /\ obj.logical_name \in DOMAIN XmlObisMapping
           /\ obj.class_id = "3"
           /\ obj.value.present
           /\ obj.value.fvalue # <<>>
           /\ obj.value.fvalue # <<"0">>
           /\ obj.value.fvalue # Zeros16
           /\ decimal_value.ok
        THEN <<Sourced([logical_name |-> obj.logical_name,
                        value        |-> decimal_value.value,
                        field_type   |-> obj.value.ftype],
                       "billing", i, 0, 0)>>
        ELSE <<>>

\* _extract_billing_values
ExtractBillingValues(doc) ==
    SeqConcat([i \in DOMAIN doc.objects |-> BillingOfObject(doc.objects[i], i)])

\* the unit of a billing or LoadProfile reading
UnitOrKWh(logical_name) ==
    IF logical_name \in DOMAIN XmlDecoderUnit THEN XmlDecoderUnit[logical_name] ELSE "kWh"

\* a reading together with the data point it was made from
Emitted(reading, sourced) == [reading |-> reading, src |-> sourced.src]

\* _create_readings_from_billing: value is the data point's integer as it is
CreateReadingsFromBilling(billing_data, cldn, timestamp) ==
    SeqConcat([k \in DOMAIN billing_data |->
        LET data_point   == billing_data[k].point
            reading_type == GetReadingTypeFromLogicalName(data_point.logical_name)
        IN  IF reading_type = NoType THEN <<>>
            ELSE <<Emitted(MeterReading(timestamp, data_point.value * 1000, reading_type,
                                        UnitOrKWh(data_point.logical_name),
                                        DefaultQuality, cldn),
                           billing_data[k])>>])

\* the conversion of a LoadProfile field, by field type
ProfileValue(field_type, field_value) ==
    IF field_type \in {"DoubleLongUnsigned", "LongUnsigned"} THEN ParseHex(field_value)
    ELSE ParseInt(field_value)

\* _extract_profile_data: the data point of object number i, if it has one.
\* The objects of a LoadProfile document carry a value or CurrentValue
\* attribute and no other attribute with fields.
ProfileOfObject(obj, i, now) ==
    LET decimal_value == ProfileValue(obj.value.ftype, obj.value.fvalue)
    IN  IF /\ obj.logical_name # <<>>
           /\ obj.logical_name \in DOMAIN XmlObisMapping
           /\ obj.value.present
           /\ obj.value.fvalue # <<>>
           /\ obj.value.fvalue # Zeros16
           /\ decimal_value.ok
        THEN <<Sourced([logical_name |-> obj.logical_name,
                        value        |-> decimal_value.value,
                        field_type   |-> obj.value.ftype,
                        timestamp    |-> now],
                       "profile", i, 0, 0)>>
        ELSE <<>>

\* _extract_profile_data
ExtractProfileData(doc, now) ==
    SeqConcat([i \in DOMAIN doc.objects |-> ProfileOfObject(doc.objects[i], i, now)])

\* _create_readings_from_profile: value is the data point's integer as it is
CreateReadingsFromProfile(profile_data, cldn) ==
    SeqConcat([k \in DOMAIN profile_data |->
        LET data_point   == profile_data[k].point
            reading_type == GetReadingTypeFromLogicalName(data_point.logical_name)
        IN  IF reading_type = NoType THEN <<>>
            ELSE <<Emitted(MeterReading(data_point.timestamp, data_point.value * 1000,
                                        reading_type, UnitOrKWh(data_point.logical_name),
                                        DefaultQuality, cldn),
                           profile_data[k])>>])

(***************************************************************************)
(* MAP110XMLParser: profile buffers                                        *)
(***************************************************************************)
\* the structure _parse_capture_objects falls back on
DefaultCaptureMap ==
    (0 :> ClockName) @@ (1 :> StatusName) @@
    (2 :> LN(1, 8, 0)) @@ (3 :> LN(2, 8, 0)) @@ (4 :> LN(5, 8, 0)) @@
    (5 :> LN(6, 8, 0)) @@ (6 :> LN(7, 8, 0)) @@ (7 :> LN(8, 8, 0))

\* _parse_capture_objects: the map index -> logical name, or the NameError
\* raised for a field whose index segment is no integer (index is read
\* before it is ever assigned)
ParseCaptureObjects(obj) ==
    IF ~obj.capture.present THEN [raised |-> FALSE, map |-> DefaultCaptureMap]
    ELSE
      LET kept == SelectSeq(obj.capture.fields,
                            LAMBDA f : f.ftype = "OctetString" /\ f.logical_name # <<>>)
          indices == {ParseInt(kept[k].seg).value : k \in DOMAIN kept}
          last(n) == CHOOSE k \in DOMAIN kept :
                        /\ ParseInt(kept[k].seg).value = n
                        /\ \A j \in DOMAIN kept :
                              ParseInt(kept[j].seg).value = n => j <= k
      IN  IF \E k \in DOMAIN kept : ~ParseInt(kept[k].seg).ok
          THEN [raised |-> TRUE]
          ELSE IF kept = <<>> THEN [raised |-> FALSE, map |-> DefaultCaptureMap]
          ELSE [raised |-> FALSE,
                map |-> [n \in indices |-> kept[last(n)].logical_name]]

\* status_value & mask # 0, for a mask of one bit
BitSet(status_value, mask) == (status_value \div mask) % 2 = 1

NoStatus == [present |-> FALSE]

\* _interpret_status_word
InterpretStatusWord(status_value) ==
    [present         |-> TRUE,
     raw_value       |-> status_value,
     end_of_interval |-> BitSet(status_value, 1),
     invalid_data    |-> BitSet(status_value, 2),
     power_failure   |-> BitSet(status_value, 4),
     clock_adjusted  |-> BitSet(status_value, 8),
     summer_time     |-> BitSet(status_value, 16)]

\* the last of the fields a loop assigned from, or none
LastOf(hits) ==
    IF hits = <<>> THEN [found |-> FALSE] ELSE [found |-> TRUE, field |-> hits[Len(hits)]]

\* the child loop of _extract_profile_buffer_data (flat structures): the
\* data points of one Struct field
FlatRecordPoints(child_fields, capture_map, now, obj, rec) ==
    LET ts     == LastOf(SelectSeq(child_fields,
                                   LAMBDA f : f.idx = 0 /\ f.ftype = "OctetString"))
        status == LastOf(SelectSeq(child_fields,
                                   LAMBDA f : /\ f.idx = 1 /\ f.ftype = "UInt8"
                                              /\ ParseInt(f.fvalue).ok))
        timestamp_field == IF ts.found THEN ts.field.fvalue ELSE <<>>
        value_fields ==
            SelectSeq(child_fields,
                      LAMBDA f : /\ f.idx >= 2
                                 /\ f.ftype \in {"UInt32", "UInt16", "Int32", "Int16"}
                                 /\ ParseInt(f.fvalue).ok
                                 /\ f.idx \in DOMAIN capture_map
                                 /\ capture_map[f.idx] # <<>>)
        timestamp    == DecodeProfileTimestamp(timestamp_field, now)
        status_flags == IF status.found
                        THEN InterpretStatusWord(ParseInt(status.field.fvalue).value)
                        ELSE NoStatus
    IN  IF timestamp_field # <<>> /\ value_fields # <<>>
        THEN [k \in DOMAIN value_fields |->
                 Sourced([logical_name  |-> capture_map[value_fields[k].idx],
                          value         |-> ParseInt(value_fields[k].fvalue).value,
                          timestamp     |-> timestamp,
                          field_type    |-> value_fields[k].ftype,
                          status        |-> status_flags],
                         "buffer", obj, rec, value_fields[k].idx)]
        ELSE <<>>

\* the child loop of _extract_e450_profile_data: the data points of one
\* Response.X structure.  No field_type and no status are put in a data
\* point: _create_readings_from_profile_buffer reads them as 'UInt32' and None.
E450RecordPoints(child_fields, logical_name, now, obj, rec) ==
    LET ts == LastOf(SelectSeq(child_fields,
                               LAMBDA f : f.idx = 0 /\ f.ftype = "OctetString"))
        timestamp_field == IF ts.found THEN ts.field.fvalue ELSE <<>>
        value_fields ==
            SelectSeq(child_fields,
                      LAMBDA f : /\ f.idx \in 2..13
                                 /\ f.ftype \in {"UInt32", "UInt16"}
                                 /\ f.fvalue # <<>> /\ f.fvalue # <<"0">>
                                 /\ ParseInt(f.fvalue).ok)
        timestamp == DecodeProfileTimestamp(timestamp_field, now)
    IN  IF timestamp_field # <<>> /\ value_fields # <<>>
        THEN [k \in DOMAIN value_fields |->
                 Sourced([logical_name  |-> logical_name,
                          value         |-> ParseInt(value_fields[k].fvalue).value,
                          timestamp     |-> timestamp,
                          field_type    |-> "UInt32",
                          status        |-> NoStatus],
                         "buffer", obj, rec, value_fields[k].idx)]
        ELSE <<>>

\* _extract_e450_profile_data
ExtractE450ProfileData(buffer, logical_name, now, obj) ==
    SeqConcat([r \in DOMAIN buffer.records |->
        IF buffer.records[r] = <<>> THEN <<>>
        ELSE E450RecordPoints(buffer.records[r], logical_name, now, obj, r)])

\* the data points _extract_profile_buffer_data takes from object number i
BufferOfObject(obj, i, now) ==
    LET capture == ParseCaptureObjects(obj)
    IN  IF obj.logical_name = <<>> \/ ~obj.buffer.present THEN <<>>
        ELSE IF capture.raised THEN <<>>
        ELSE IF obj.buffer.selector
        THEN ExtractE450ProfileData(obj.buffer, obj.logical_name, now, i)
        ELSE SeqConcat([r \in DOMAIN obj.buffer.records |->
                 IF obj.buffer.records[r] = <<>> THEN <<>>
                 ELSE FlatRecordPoints(obj.buffer.records[r], capture.map, now, i, r)])

\* the channels_count of object number i: the distinct codes at index >= 2
ChannelsOfObject(obj) ==
    LET capture == ParseCaptureObjects(obj)
    IN  IF obj.logical_name = <<>> \/ ~obj.buffer.present \/ capture.raised THEN 0
        ELSE Cardinality({capture.map[n] : n \in {m \in DOMAIN capture.map : m >= 2}})

\* the largest member of a set of naturals, 0 for the empty set
MaxOf(S) == IF S = {} THEN 0 ELSE CHOOSE y \in S : \A z \in S : z <= y

\* _extract_profile_buffer_data
ExtractProfileBufferData(doc, now) ==
    [raised |-> \E i \in DOMAIN doc.objects :
                   /\ doc.objects[i].logical_name # <<>>
                   /\ doc.objects[i].buffer.present
                   /\ ParseCaptureObjects(doc.objects[i]).raised,
     profile_buffer_data |->
         SeqConcat([i \in DOMAIN doc.objects |-> BufferOfObject(doc.objects[i], i, now)]),
     max_channels_count |->
         MaxOf({ChannelsOfObject(doc.objects[i]) : i \in DOMAIN doc.objects})]

\* the unit and the value (in thousandths) of a profile-buffer data point
ScaleProfileValue(logical_name, field_type, raw_value) ==
    IF logical_name \in DOMAIN XmlDecoderUnit
    THEN LET unit == XmlDecoderUnit[logical_name]
         IN  [unit  |-> unit,
              value |->
                 IF unit \in {"kWh", "kvarh"} THEN raw_value
                 ELSE IF unit = "V" /\ field_type = "UInt16" THEN raw_value * 100
                 ELSE IF unit = "A" /\ field_type = "UInt16"
                      THEN (IF raw_value > 10000 THEN raw_value * 100 ELSE raw_value * 10)
                 ELSE IF unit = "Hz"
                      THEN (IF field_type = "UInt32" /\ raw_value < 1000 THEN raw_value * 100
                            ELSE IF field_type = "UInt16" THEN raw_value * 10
                            ELSE raw_value * 100)
                 ELSE raw_value * 1000]
    ELSE [unit |-> "kWh", value |-> raw_value]

\* the quality of a profile-buffer data point
QualityOf(status_flags) ==
    IF status_flags.present /\ status_flags.power_failure THEN "1.4.8"
    ELSE IF status_flags.present /\ status_flags.clock_adjusted THEN "1.4.10"
    ELSE DefaultQuality

\* _create_readings_from_profile_buffer
CreateReadingsFromProfileBuffer(profile_buffer_data, cldn) ==
    SeqConcat([k \in DOMAIN profile_buffer_data |->
        LET data_point   == profile_buffer_data[k].point
            reading_type == GetReadingTypeFromLogicalName(data_point.logical_name)
            scaled       == ScaleProfileValue(data_point.logical_name,
                                              data_point.field_type, data_point.value)
        IN  IF data_point.status.present /\ data_point.status.invalid_data THEN <<>>
            ELSE IF reading_type = NoType THEN <<>>
            ELSE <<Emitted(MeterReading(data_point.timestamp, scaled.value, reading_type,
                                        scaled.unit, QualityOf(data_point.status), cldn),
                           profile_buffer_data[k])>>])

\* the result and the errors of a parse that returns early
XmlFail(msg) ==
    [result |-> FileProcessingResult(FALSE, <<>>, <<msg>>, <<>>, NoCount), origin |-> <<>>]

\* the readings parse collects, each with the data point it was made from:
\* those of the billing values, then those the file type calls for
XmlEmitted(doc, now, cldn, file_type, buffer) ==
    CreateReadingsFromBilling(ExtractBillingValues(doc), cldn,
                              ExtractFileTimestamp(doc, now))
    \o (IF file_type = "ProfileBuffer"
        THEN CreateReadingsFromProfileBuffer(buffer.profile_buffer_data, cldn)
        ELSE IF file_type = "LoadProfile"
        THEN CreateReadingsFromProfile(ExtractProfileData(doc, now), cldn)
        ELSE <<>>)

\* the warnings of a parse that returns at its end
XmlWarnings(file_type, emitted) ==
    (IF file_type \in {"ProfileBuffer", "LoadProfile", "BillingValues"} THEN <<>>
     ELSE <<"Type de fichier non standard">>)
    \o (IF emitted = <<>> THEN <<NoReadingsWarning>> ELSE <<>>)

\* what parse returns, given what it extracted
XmlReturn(cldn, file_type, buffer, emitted) ==
    IF cldn = <<>> THEN XmlFail("CLDN manquant dans le fichier XML")
    ELSE IF file_type = "ProfileBuffer" /\ buffer.raised
    THEN XmlFail("Erreur lors du parsing")
    ELSE [result |->
             FileProcessingResult(TRUE, [k \in DOMAIN emitted |-> emitted[k].reading],
                                  <<>>, XmlWarnings(file_type, emitted),
                                  IF file_type = "ProfileBuffer"
                                  THEN buffer.max_channels_count ELSE NoCount),
          origin |-> [k \in DOMAIN emitted |-> emitted[k].src]]

XmlParseWith(doc, now, cldn, file_type, buffer) ==
    XmlReturn(cldn, file_type, buffer, XmlEmitted(doc, now, cldn, file_type, buffer))

\* MAP110XMLParser.parse: the FileProcessingResult, and for every reading the
\* place in the document its data point was read from
XmlParse(doc, now) ==
    XmlParseWith(doc, now, ExtractCldn(doc), DetectFileType(doc),
                 ExtractProfileBufferData(doc, now))

(***************************************************************************)
(* Documents for the XML parser                                            *)
(***************************************************************************)
Child(idx, ftype, fvalue) == [idx |-> idx, ftype |-> ftype, fvalue |-> fvalue]

NoValueAttr == [present |-> FALSE, attr |-> "", ftype |-> "", fvalue |-> <<>>]

NoCapture == [present |-> FALSE, fields |-> <<>>]

NoBuffer == [present |-> FALSE, selector |-> FALSE, records |-> <<>>]

\* a register object: class_id, and the field <attr>.0 of its value attribute
Register(logical_name, class_id, attr, ftype, fvalue) ==
    [logical_name |-> logical_name, class_id |-> class_id,
     value   |-> [present |-> TRUE, attr |-> attr, ftype |-> ftype, fvalue |-> fvalue],
     capture |-> NoCapture, buffer |-> NoBuffer]

\* a profile object (class 7): its capture_objects and its buffer
Profile(logical_name, capture, selector, records) ==
    [logical_name |-> logical_name, class_id |-> "7",
     value   |-> NoValueAttr,
     capture |-> capture,
     buffer  |-> [present |-> TRUE, selector |-> selector, records |-> records]]

Document(ddid, dds, subset, stamp, objects) ==
    [ddid |-> ddid, dds |-> dds, subset |-> subset, stamp |-> stamp, objects |-> objects]

CaptureField(seg, logical_name) ==
    [seg |-> seg, ftype |-> "OctetString", logical_name |-> logical_name]

Layout(fields) == [present |-> TRUE, fields |-> fields]

\* capture_objects of an energy profile, of a power-quality profile, and one
\* whose field name has no integer where the index is expected
EnergyLayout ==
    Layout(<<CaptureField(Digits(0), ClockName), CaptureField(Digits(1), StatusName),
             CaptureField(Digits(2), LN(1, 8, 0)), CaptureField(Digits(3), LN(2, 8, 0))>>)

QualityLayout ==
    Layout(<<CaptureField(Digits(0), ClockName), CaptureField(Digits(1), StatusName),
             CaptureField(Digits(2), LN(32, 24, 0)), CaptureField(Digits(3), LN(14, 24, 0)),
             CaptureField(Digits(4), LN(31, 24, 0))>>)

BrokenLayout ==
    Layout(<<CaptureField(Digits(0), ClockName), CaptureField(<<"x">>, LN(1, 8, 0))>>)

GenLayouts == {NoCapture, EnergyLayout, QualityLayout, BrokenLayout}

\* the example date-time, one an hour later, one of the year 2101, one of
\* month 13, and one cut short
GenStamps ==
    {EncodeDlms(ExampleDlms),
     EncodeDlms(Dlms(2101, 7, 10, 1, 17, 30, 0, 0, -120, 128)),
     EncodeDlms(Dlms(2023, 13, 10, 1, 17, 30, 0, 0, -120, 128)),
     Damage(EncodeDlms(ExampleDlms), "short")}

\* no status field, or a status word: 2 invalid data, 4 power failure,
\* 8 clock adjusted, 12 both
GenStatus == {<<>>, Digits(0), Digits(2), Digits(4), Digits(8), Digits(12)}

GenValueLists ==
    {<<Child(2, "UInt32", Digits(1930))>>,
     <<Child(2, "UInt16", Digits(2301)), Child(3, "UInt16", Digits(5000)),
       Child(4, "UInt16", Digits(12000))>>,
     <<Child(2, "UInt32", Digits(0)), Child(3, "UInt32", Digits(500))>>,
     <<Child(2, "UInt32", <<"x">>)>>}

\* the child fields of one buffer record
Record(stamp, status, values) ==
    <<Child(0, "OctetString", stamp)>>
    \o (IF status = <<>> THEN <<>> ELSE <<Child(1, "UInt8", status)>>)
    \o values

GenRecords == {Record(t, st, vs) : t \in GenStamps, st \in GenStatus, vs \in GenValueLists}

\* a well-formed record of 2023-07-10T18:30:00 local time
GoodRecord ==
    Record(EncodeDlms(Dlms(2023, 7, 10, 1, 18, 30, 0, 0, -120, 128)), Digits(0),
           <<Child(2, "UInt32", Digits(1000))>>)

GenBuffers ==
    {<<>>} \cup {<<r>> : r \in GenRecords}
    \cup {<<r, GoodRecord>> : r \in GenRecords} \cup {<<GoodRecord, r>> : r \in GenRecords}

\* Load1 is in OBIS_MAPPING, Load4 only matches the generic rule
GenProfileNames == {LN(99, 1, 0), LN(99, 4, 0)}

MeterId == <<"M", "1">>

FileStamp == [present |-> TRUE, at |-> CivilInstant(2025, 8, 27, 10, 32, 26)]

NoStamp == [present |-> FALSE, at |-> CivilInstant(1970, 1, 1, 0, 0, 0)]

GenProfileDocs ==
    {Document(MeterId, <<>>, "ProfileBuffer", FileStamp, <<Profile(n, c, sel, rs)>>) :
        n \in GenProfileNames, c \in GenLayouts, sel \in BOOLEAN, rs \in GenBuffers}

GenRegisters ==
    {Register(n, cl, attr, f[1], f[2]) :
        n \in {LN(1, 8, 0), LN(5, 8, 0), LN(32, 24, 0), LN(1, 8, 3)},
        cl \in {"3", "4"},
        attr \in {"value", "CurrentValue"},
        f \in {<<"UInt32", Digits(1930)>>, <<"UInt32", Digits(0)>>,
               <<"UInt32", <<"x">>>>, <<"OctetString", Pad(0, 6) \o ToHex(1930, 4)>>,
               <<"OctetString", Zeros16>>, <<"DoubleLongUnsigned", ToHex(1930, 3)>>}}

GoodRegister == Register(LN(2, 8, 0), "3", "value", "UInt32", Digits(42))

GenRegisterDocs ==
    {Document(MeterId, <<>>, subset, stamp, objects) :
        subset \in {"BillingValues", "LoadProfile", "ProfileBuffer", ""},
        stamp \in {FileStamp, NoStamp},
        objects \in {<<r>> : r \in GenRegisters} \cup {<<GoodRegister, r>> : r \in GenRegisters}}

\* documents that differ in where the meter identifier is: a register
\* before a profile, a profile whose buffer holds the same record twice
\* before a register, and a register before a profile of a layout with an
\* unnumbered field
GenOtherDocs ==
    {Document(ids[1], ids[2], subset, FileStamp, objects) :
        ids \in {<<<<>>, MeterId>>, <<<<>>, <<>>>>, <<<<" ">>, MeterId>>, <<MeterId, <<>>>>},
        subset \in {"ProfileBuffer", "Other"},
        objects \in {<<GoodRegister, Profile(LN(99, 1, 0), EnergyLayout, sel, <<GoodRecord>>)>> :
                        sel \in BOOLEAN}
                    \cup {<<Profile(LN(99, 1, 0), EnergyLayout, sel, <<GoodRecord, GoodRecord>>),
                            GoodRegister>> : sel \in BOOLEAN}
                    \cup {<<GoodRegister,
                            Profile(LN(99, 1, 0), BrokenLayout, FALSE, <<GoodRecord>>)>>}}

GenDocs == GenProfileDocs \cup GenRegisterDocs \cup GenOtherDocs

(***************************************************************************)
(* The XML specification: a document is submitted, parsed, and its result  *)
(* collected.  The clock is read once for a parse.                         *)
(***************************************************************************)
XmlInit == Idle

XmlSubmit ==
    /\ xmlGen = NoFile
    /\ \E doc \in GenDocs : xmlGen' = doc
    /\ UNCHANGED <<xmlNow, xmlResult, xmlOrigin, NotXml>>

XmlParseFile ==
    /\ xmlGen # NoFile
    /\ xmlResult = NoResult
    /\ \E now \in Nows :
          \E parsed \in {XmlParse(xmlGen, now)} :
              /\ xmlNow' = now
              /\ xmlResult' = parsed.result
              /\ xmlOrigin' = parsed.origin
    /\ UNCHANGED <<xmlGen, NotXml>>

\* the caller takes the result; the parser keeps nothing of the document
XmlCollect ==
    /\ xmlResult # NoResult
    /\ xmlGen' = NoFile
    /\ xmlNow' = NoResult
    /\ xmlResult' = NoResult
    /\ xmlOrigin' = <<>>
    /\ UNCHANGED NotXml

XmlNext == XmlSubmit \/ XmlParseFile \/ XmlCollect

SpecXML == XmlInit /\ [][XmlNext]_vars

(***************************************************************************)
(* Claims about the XML parser                                             *)
(***************************************************************************)
XmlParsed == xmlResult # NoResult

\* the object, the buffer record and the field a reading was read from
SourceObject(src) == xmlGen.objects[src.obj]

SourceRecord(src) == SourceObject(src).buffer.records[src.rec]

ChildrenAt(record, idx) == SelectSeq(record, LAMBDA f : f.idx = idx)

SourceField(src) == ChildrenAt(SourceRecord(src), src.idx)[1]

\* the status byte of a buffer record; a record without a status field has
\* no bit set
RecordStatusByte(record) ==
    IF ChildrenAt(record, 1) = <<>> THEN 0
    ELSE ParseInt(ChildrenAt(record, 1)[1].fvalue).value

RecordStamp(record) == ChildrenAt(record, 0)[1].fvalue

BufferOrigins == {k \in DOMAIN xmlOrigin : xmlOrigin[k].kind = "buffer"}

(* C2: in both profile-buffer traversals, a buffer record whose status byte
   has bit 0x02 (invalid_data) set contributes no reading: no reading of a
   result originates from an invalid_data record. *)
C2_NoReadingFromInvalidRecord ==
    XmlParsed =>
        \A k \in BufferOrigins :
            ~BitSet(RecordStatusByte(SourceRecord(xmlOrigin[k])), 2)

\* a timestamp field the date-time decode has to reject: fewer than 24
\* hexadecimal characters, a civil field out of range, or a year outside
\* 1970..2100
MalformedStamp(hex) ==
    \/ Len(hex) < 24
    \/ ~AllHex(SubSeq(hex, 1, 24))
    \/ ~ValidCivil(HexToInt(SubSeq(hex, 1, 4)), HexToInt(SubSeq(hex, 5, 6)),
                   HexToInt(SubSeq(hex, 7, 8)), HexToInt(SubSeq(hex, 11, 12)),
                   HexToInt(SubSeq(hex, 13, 14)), HexToInt(SubSeq(hex, 15, 16)))
    \/ HexToInt(SubSeq(hex, 1, 4)) \notin 1970..2100

(* C4: a profile record whose timestamp field is malformed produces no
   reading: every reading that originates from a buffer record originates
   from one whose timestamp is well-formed. *)
C4_NoReadingFromMalformedStamp ==
    XmlParsed =>
        \A k \in BufferOrigins :
            ~MalformedStamp(RecordStamp(SourceRecord(xmlOrigin[k])))

\* the scaling table: the value (in thousandths) and the unit for a registry
\* unit U ("" when the code has none), a field type F and a raw integer r
ScalingTable(U, F, r) ==
    CASE U \in {"kWh", "kvarh", "kVAh"} -> [value |-> r, unit |-> U]
      [] U = "V" /\ F = "UInt16" -> [value |-> r * 100, unit |-> U]
      [] U = "A" /\ F = "UInt16" ->
             [value |-> IF r > 10000 THEN r * 100 ELSE r * 10, unit |-> U]
      [] U = "Hz" ->
             [value |-> IF F = "UInt32" /\ r < 1000 THEN r * 100
                        ELSE IF F = "UInt16" THEN r * 10 ELSE r * 100,
              unit |-> U]
      [] U = "" -> [value |-> r, unit |-> "kWh"]
      [] OTHER -> [value |-> r * 1000, unit |-> U]

\* the OBIS code the capture layout of the reading's profile gives its slot
SourceCode(src) == ParseCaptureObjects(SourceObject(src)).map[src.idx]

SourceUnit(src) ==
    IF SourceCode(src) \in DOMAIN XmlDecoderUnit THEN XmlDecoderUnit[SourceCode(src)] ELSE ""

(* C5: for every profile-buffer value with registry unit U (the unit of the
   code its capture layout gives its slot), field type F and raw integer r,
   the emitted (value, unit) is what the scaling table gives for (U, F, r). *)
C5_BufferValuesFollowTable ==
    XmlParsed =>
        \A k \in BufferOrigins :
            LET src   == xmlOrigin[k]
                table == ScalingTable(SourceUnit(src), SourceField(src).ftype,
                                      ParseInt(SourceField(src).fvalue).value)
            IN  /\ xmlResult.readings[k].value = table.value
                /\ xmlResult.readings[k].unit = table.unit

\* the raw integer a reading was made from
SourceRaw(src) ==
    CASE src.kind = "billing" ->
             BillingValue(SourceObject(src).value.ftype, SourceObject(src).value.fvalue).value
      [] src.kind = "profile" ->
             ProfileValue(SourceObject(src).value.ftype, SourceObject(src).value.fvalue).value
      [] src.kind = "buffer" -> ParseInt(SourceField(src).fvalue).value

(* C6: every reading of the XML parser whose unit is kWh or kvarh has the
   raw source integer divided by 1000 as its value, whichever extraction
   (billing register, LoadProfile or profile buffer) produced it. *)
C6_EnergyIsRawOverThousand ==
    XmlParsed =>
        \A k \in DOMAIN xmlOrigin :
            xmlResult.readings[k].unit \in {"kWh", "kvarh"} =>
                xmlResult.readings[k].value = SourceRaw(xmlOrigin[k])

\* the quality the precedence gives a status byte
QualityOfByte(status_byte) ==
    IF BitSet(status_byte, 4) THEN "1.4.8"
    ELSE IF BitSet(status_byte, 8) THEN "1.4.10"
    ELSE "1.4.9"

(* C7: the quality of a profile reading is a function of its record's
   status byte: power_failure (0x04) gives 1.4.8 even with clock_adjusted,
   otherwise clock_adjusted (0x08) gives 1.4.10, otherwise 1.4.9; a record
   with no status field gets 1.4.9. *)
C7_QualityFollowsStatusByte ==
    XmlParsed =>
        \A k \in BufferOrigins :
            xmlResult.readings[k].quality =
                QualityOfByte(RecordStatusByte(SourceRecord(xmlOrigin[k])))


(***************************************************************************)
(* Time arithmetic, ordering and ratios for the auditor (src/validation.py *)
(* and SummaryTableGenerator of src/export.py).  A percentage is held as   *)
(* an exact ratio in lowest terms.                                         *)
(***************************************************************************)
\* (a - b).total_seconds()
SecondsBetween(a, b) == (a.day - b.day) * 86400 + (a.sec - b.sec)

Before(a, b) == SecondsBetween(a, b) < 0

\* sorted(readings, key=lambda x: x.timestamp): a new list, stable
RECURSIVE SortedByTimestamp(_)
SortedByTimestamp(readings) ==
    IF readings = <<>> THEN <<>>
    ELSE LET rest   == SortedByTimestamp(SubSeq(readings, 1, Len(readings) - 1))
             last   == readings[Len(readings)]
             before == SelectSeq(rest, LAMBDA r : ~Before(last.timestamp, r.timestamp))
             after  == SelectSeq(rest, LAMBDA r : Before(last.timestamp, r.timestamp))
         IN  before \o <<last>> \o after

RECURSIVE Gcd(_, _)
Gcd(a, b) == IF b = 0 THEN a ELSE Gcd(b, a % b)

\* n / d for d > 0 and n >= 0, in lowest terms
Ratio(n, d) == [num |-> n \div Gcd(n, d), den |-> d \div Gcd(n, d)]

RatioLeq(p, q) == p.num * q.den <= q.num * p.den

Hundred == Ratio(100, 1)

Zero == Ratio(0, 1)

\* min(p, 100.0)
CapAtHundred(p) == IF RatioLeq(p, Hundred) THEN p ELSE Hundred

\* f"{p:.1f}": the nearest number of tenths, the even one of two equally near
FormatTenths(p) ==
    LET twice == (2 * 10 * p.num) \div p.den
        exact == (2 * 10 * p.num) % p.den = 0
        low   == twice \div 2
    IN  IF twice % 2 = 0 THEN low
        ELSE IF exact THEN (IF low % 2 = 0 THEN low ELSE low + 1)
        ELSE low + 1

\* the members of s in the order of their first occurrence
RECURSIVE FirstOccurrences(_)
FirstOccurrences(s) ==
    IF s = <<>> THEN <<>>
    ELSE LET rest == FirstOccurrences(SubSeq(s, 1, Len(s) - 1))
         IN  IF s[Len(s)] \in Range(rest) THEN rest ELSE Append(rest, s[Len(s)])

\* the orders in which the members of a set may be listed
Orderings(S) ==
    {o \in [1..Cardinality(S) -> S] : \A i, j \in DOMAIN o : o[i] = o[j] => i = j}

UpperChars ==
    <<"A", "B", "C", "D", "E", "F", "G", "H", "I", "J", "K", "L", "M",
      "N", "O", "P", "Q", "R", "S", "T", "U", "V", "W", "X", "Y", "Z">>

LowerChars ==
    <<"a", "b", "c", "d", "e", "f", "g", "h", "i", "j", "k", "l", "m",
      "n", "o", "p", "q", "r", "s", "t", "u", "v", "w", "x", "y", "z">>

\* str.lower()
Lower(s) ==
    [i \in DOMAIN s |->
        IF \E k \in DOMAIN UpperChars : UpperChars[k] = s[i]
        THEN LowerChars[CHOOSE k \in DOMAIN UpperChars : UpperChars[k] = s[i]]
        ELSE s[i]]

\* str.endswith(suffix)
EndsWith(s, suffix) ==
    Len(s) >= Len(suffix) /\ SubSeq(s, Len(s) - Len(suffix) + 1, Len(s)) = suffix

\* str.startswith(prefix)
StartsWith(s, prefix) == Len(s) >= Len(prefix) /\ SubSeq(s, 1, Len(prefix)) = prefix


(***************************************************************************)
(* SummaryTableGenerator._calculate_completeness and the completeness      *)
(* functions of DataValidator                                              *)
(***************************************************************************)
\* int(total_duration.total_seconds() / (15 * 60)) + 1, for a sorted series
ExpectedReadings(sorted_readings) ==
    SecondsBetween(sorted_readings[Len(sorted_readings)].timestamp,
                   sorted_readings[1].timestamp) \div (15 * 60) + 1

\* (expected_readings / actual_readings) * 100: the ratio the wrong way up
PercentageInverted(actual_readings, expected_readings) ==
    Ratio(expected_readings * 100, actual_readings)

\* (actual_readings / expected_readings) * 100
Percentage(actual_readings, expected_readings) ==
    Ratio(actual_readings * 100, expected_readings)

\* the dict _calculate_completeness returns for a percentage
CompletenessOf(percentage) ==
    [complete |-> percentage = Hundred, percentage |-> CapAtHundred(percentage)]

CompletenessFrom(actual_readings, expected_readings) ==
    IF expected_readings = 0 THEN [complete |-> FALSE, percentage |-> Zero]
    ELSE CompletenessOf(Percentage(actual_readings, expected_readings))

\* SummaryTableGenerator._calculate_completeness
CalculateCompleteness(readings) ==
    IF Len(readings) < 2 THEN [complete |-> FALSE, percentage |-> Zero]
    ELSE CompletenessFrom(Len(readings), ExpectedReadings(SortedByTimestamp(readings)))

CoverageFrom(actual_readings, expected_readings) ==
    IF expected_readings = 0 THEN Zero
    ELSE CapAtHundred(Percentage(actual_readings, expected_readings))

\* DataValidator._calculate_coverage_percentage
CalculateCoveragePercentage(readings) ==
    IF Len(readings) < 2 THEN Zero
    ELSE CoverageFrom(Len(readings), ExpectedReadings(SortedByTimestamp(readings)))

\* the pairs of neighbours of a sorted series that lie more than twice the
\* expected interval apart
GapsOf(sorted_readings) ==
    SeqConcat([i \in DOMAIN sorted_readings |->
        IF i > 1 /\ SecondsBetween(sorted_readings[i].timestamp,
                                   sorted_readings[i - 1].timestamp) > 2 * 15 * 60
        THEN <<[start    |-> sorted_readings[i - 1].timestamp,
                end      |-> sorted_readings[i].timestamp,
                duration |-> SecondsBetween(sorted_readings[i].timestamp,
                                            sorted_readings[i - 1].timestamp)]>>
        ELSE <<>>])

\* the reading types of a list, in the order a dict keeps its keys
TypesInOrder(readings) ==
    FirstOccurrences([i \in DOMAIN readings |-> readings[i].reading_type])

OfType(readings, reading_type) ==
    SelectSeq(readings, LAMBDA r : r.reading_type = reading_type)

\* the entry of _validate_data_completeness for one reading type
TypeCompleteness(type_readings, gaps) ==
    IF Len(type_readings) < 2
    THEN [complete |-> FALSE, reason |-> "Pas assez de donnees"]
    ELSE [complete |-> gaps = <<>>, gaps |-> gaps,
          total_readings |-> Len(type_readings),
          coverage_percentage |-> CalculateCoveragePercentage(type_readings)]

\* DataValidator._validate_data_completeness
ValidateDataCompleteness(readings) ==
    IF readings = <<>> THEN [complete |-> FALSE, missing_periods |-> <<>>]
    ELSE [reading_type \in Range(TypesInOrder(readings)) |->
             TypeCompleteness(OfType(readings, reading_type),
                              GapsOf(SortedByTimestamp(OfType(readings, reading_type))))]

\* DataValidator._validate_duplicates
ValidateDuplicates(readings) ==
    SeqConcat([i \in DOMAIN readings |->
        IF \E j \in 1..(i - 1) :
              /\ readings[j].timestamp = readings[i].timestamp
              /\ readings[j].reading_type = readings[i].reading_type
              /\ readings[j].cldn = readings[i].cldn
        THEN <<[timestamp |-> readings[i].timestamp,
                reading_type |-> readings[i].reading_type]>>
        ELSE <<>>])

TypeGaps(reading_type, gaps) ==
    [i \in DOMAIN gaps |->
        [reading_type |-> reading_type, start |-> gaps[i].start, end |-> gaps[i].end]]

\* DataValidator._validate_gaps
ValidateGaps(readings) ==
    SeqConcat([k \in DOMAIN TypesInOrder(readings) |->
        TypeGaps(TypesInOrder(readings)[k],
                 GapsOf(SortedByTimestamp(OfType(readings, TypesInOrder(readings)[k]))))])


(***************************************************************************)
(* DataValidator.validate_readings                                         *)
(***************************************************************************)
TenYears == 365 * 10 * 86400

OneYear == 365 * 86400

\* _validate_timestamp_format, now being what datetime.now(timezone.utc) returns
ValidateTimestampFormat(timestamp, now) ==
    /\ ~(SecondsBetween(timestamp, now) < 0 - TenYears)
    /\ ~(SecondsBetween(timestamp, now) > OneYear)

\* _validate_value_range; value is in thousandths
ValidateValueRange(value) ==
    /\ ~(value < 0)
    /\ ~(value \div 1000 > 999999999
         \/ (value \div 1000 = 999999999 /\ value % 1000 > 0))

\* _validate_cldn_format
ValidateCldnFormat(cldn) ==
    /\ cldn # <<>>
    /\ StartsWith(cldn, <<"L", "G", "Z">>)
    /\ ~(Len(cldn) < 10)

\* reading_type_to_obis of _validate_obis_codes
ReadingTypeToObis ==
    (Ch73 :> Dotted(1, 0)) @@ (Ch74 :> Dotted(2, 0)) @@
    (Ch75 :> Dotted(15, 0)) @@ (Ch76 :> Dotted(16, 0)) @@
    (Ch77 :> Dotted(5, 0)) @@ (Ch78 :> Dotted(6, 0)) @@
    (Ch79 :> Dotted(7, 0)) @@ (Ch80 :> Dotted(8, 0)) @@
    (Ch81 :> Dotted(3, 0)) @@ (Ch82 :> Dotted(4, 0)) @@
    (Ch83 :> Dotted(9, 0)) @@ (Ch84 :> Dotted(10, 0))

\* the keys of DataValidator.obis_reference; every entry is standard
ObisReference == Range([c \in DOMAIN ReadingTypeToObis |-> ReadingTypeToObis[c]])

KnownLabelingErrors == {Dotted(7, 0), Dotted(8, 0), Dotted(3, 0), Dotted(4, 0)}

\* the warnings _validate_obis_codes has for one reading type
ObisWarnings(reading_type) ==
    IF reading_type \notin DOMAIN ReadingTypeToObis
    THEN <<[msg |-> "Type de lecture non reconnu", about |-> reading_type]>>
    ELSE IF ReadingTypeToObis[reading_type] \notin ObisReference
    THEN <<[msg |-> "Code OBIS non reference", about |-> ReadingTypeToObis[reading_type]]>>
    ELSE IF ReadingTypeToObis[reading_type] \in KnownLabelingErrors
    THEN <<[msg |-> "Code OBIS", about |-> ReadingTypeToObis[reading_type]]>>
    ELSE <<>>

\* _validate_obis_codes; type_order is the order in which the set of the
\* reading types is iterated
ValidateObisCodes(type_order) ==
    [errors   |-> <<>>,
     warnings |-> SeqConcat([k \in DOMAIN type_order |-> ObisWarnings(type_order[k])])]

MinInstant(timestamps) == CHOOSE t \in timestamps : \A u \in timestamps : ~Before(u, t)

MaxInstant(timestamps) == CHOOSE t \in timestamps : \A u \in timestamps : ~Before(t, u)

MinOf(S) == CHOOSE y \in S : \A z \in S : y <= z

RECURSIVE SumOf(_)
SumOf(values) == IF values = <<>> THEN 0 ELSE Head(values) + SumOf(Tail(values))

TimestampsOf(readings) == {readings[i].timestamp : i \in DOMAIN readings}

ValuesOf(readings) == [i \in DOMAIN readings |-> readings[i].value]

\* _calculate_statistics; the two orders are those of list(set(...)).  The
\* mean is held as the sum and the number of values it is the quotient of.
CalculateStatistics(readings, type_order, cldn_order) ==
    IF readings = <<>> THEN [none |-> TRUE]
    ELSE [total_readings |-> Len(readings),
          date_range |->
              [start    |-> MinInstant(TimestampsOf(readings)),
               end      |-> MaxInstant(TimestampsOf(readings)),
               duration |-> SecondsBetween(MaxInstant(TimestampsOf(readings)),
                                           MinInstant(TimestampsOf(readings)))],
          value_statistics |->
              [min   |-> MinOf(Range(ValuesOf(readings))),
               max   |-> MaxOf(Range(ValuesOf(readings))),
               mean  |-> [sum |-> SumOf(ValuesOf(readings)), count |-> Len(readings)],
               total |-> SumOf(ValuesOf(readings))],
          reading_types |-> type_order,
          cldns |-> cldn_order]

\* _calculate_quality_score, from the numbers of errors, warnings and readings
CalculateQualityScore(errors, warnings, total_readings) ==
    LET score == 100 - errors * 20 - warnings * 5
                 + (IF total_readings > 100 THEN 10
                    ELSE IF total_readings > 50 THEN 5 ELSE 0)
    IN  IF score < 0 THEN 0 ELSE IF score > 100 THEN 100 ELSE score


\* the errors of the format loop of validate_readings
FormatErrors(readings, now) ==
    SeqConcat([i \in DOMAIN readings |->
        IF ValidateTimestampFormat(readings[i].timestamp, now) THEN <<>>
        ELSE <<[msg |-> "Timestamp invalide", about |-> readings[i].timestamp]>>])

\* the warnings of the format loop of validate_readings
FormatWarnings(readings) ==
    SeqConcat([i \in DOMAIN readings |->
        (IF ValidateValueRange(readings[i].value) THEN <<>>
         ELSE <<[msg |-> "Valeur suspecte", about |-> readings[i].value]>>)
        \o (IF ValidateCldnFormat(readings[i].cldn) THEN <<>>
            ELSE <<[msg |-> "CLDN suspect", about |-> readings[i].cldn]>>)])

Tagged(msg, items) == [i \in DOMAIN items |-> [msg |-> msg, about |-> items[i]]]

\* what validate_readings returns, given the errors and warnings it collected
ValidationResults(errors, warnings, statistics) ==
    [valid         |-> errors = <<>>,
     errors        |-> errors,
     warnings      |-> warnings,
     statistics    |-> statistics,
     quality_score |-> CalculateQualityScore(Len(errors), Len(warnings),
                                             statistics.total_readings)]

\* DataValidator.validate_readings
ValidateReadings(readings, now, type_order, cldn_order) ==
    IF readings = <<>>
    THEN [valid |-> FALSE, errors |-> <<[msg |-> "Aucune lecture trouvee", about |-> ""]>>,
          warnings |-> <<>>, statistics |-> [none |-> TRUE], quality_score |-> 0]
    ELSE ValidationResults(
             FormatErrors(readings, now) \o ValidateObisCodes(type_order).errors,
             FormatWarnings(readings)
                 \o Tagged("Doublon detecte", ValidateDuplicates(readings))
                 \o Tagged("Trou detecte", ValidateGaps(readings))
                 \o ValidateObisCodes(type_order).warnings,
             CalculateStatistics(readings, type_order, cldn_order))

TypeSet(readings) == {readings[i].reading_type : i \in DOMAIN readings}

CldnSet(readings) == {readings[i].cldn : i \in DOMAIN readings}


(***************************************************************************)
(* QualityReportGenerator.generate_report                                  *)
(***************************************************************************)
\* a FileProcessingResult with the name of its file
Named(filename, result) ==
    [filename |-> filename, success |-> result.success, readings |-> result.readings,
     errors |-> result.errors, warnings |-> result.warnings,
     channels_count |-> result.channels_count]

NoValidation == [none |-> TRUE]

\* for each result, the orders in which the sets of its reading types and of
\* its meter identifiers may be iterated
RECURSIVE OrderChoices(_)
OrderChoices(processing_results) ==
    IF processing_results = <<>> THEN {<<>>}
    ELSE {Append(rest, [types |-> t, cldns |-> c]) :
             rest \in OrderChoices(SubSeq(processing_results, 1,
                                          Len(processing_results) - 1)),
             t \in Orderings(TypeSet(processing_results[Len(processing_results)].readings)),
             c \in Orderings(CldnSet(processing_results[Len(processing_results)].readings))}

Validated(result) == result.success /\ result.readings # <<>>

\* the file_report of one result
FileReport(result, now, order) ==
    [filename       |-> result.filename,
     success        |-> result.success,
     readings_count |-> Len(result.readings),
     errors         |-> result.errors,
     warnings       |-> result.warnings,
     validation     |-> IF Validated(result)
                        THEN ValidateReadings(result.readings, now, order.types,
                                              order.cldns)
                        ELSE NoValidation]

\* all_readings: the readings of the validated results, in the order of the results
AllReadings(processing_results) ==
    SeqConcat([i \in DOMAIN processing_results |->
        IF Validated(processing_results[i]) THEN processing_results[i].readings
        ELSE <<>>])

ReportSummary(processing_results) ==
    [total_files      |-> Len(processing_results),
     successful_files |-> Len(SelectSeq(processing_results, LAMBDA r : r.success)),
     failed_files     |-> Len(SelectSeq(processing_results, LAMBDA r : ~r.success)),
     total_readings   |->
         SumOf([i \in DOMAIN processing_results |-> Len(processing_results[i].readings)]),
     total_errors     |->
         SumOf([i \in DOMAIN processing_results |-> Len(processing_results[i].errors)]),
     total_warnings   |->
         SumOf([i \in DOMAIN processing_results |-> Len(processing_results[i].warnings)])]

Advice(msg, n) == [msg |-> msg, n |-> n]

\* QualityReportGenerator._generate_recommendations
GenerateRecommendations(summary, files) ==
    (IF summary.failed_files > 0
     THEN <<Advice("fichier(s) ont echoue", summary.failed_files)>> ELSE <<>>)
    \o (IF summary.total_errors > 0
        THEN <<Advice("erreur(s) detectee(s)", summary.total_errors)>> ELSE <<>>)
    \o (IF summary.total_warnings > 0
        THEN <<Advice("avertissement(s) detecte(s)", summary.total_warnings)>> ELSE <<>>)
    \o (IF summary.total_readings = 0
        THEN <<Advice("Aucune lecture valide trouvee", 0)>> ELSE <<>>)
    \o SeqConcat([i \in DOMAIN files |->
           IF files[i].validation # NoValidation /\ files[i].validation.quality_score < 70
           THEN <<[msg |-> "Qualite faible", filename |-> files[i].filename,
                   n |-> files[i].validation.quality_score]>>
           ELSE <<>>])

ReportOf(summary, files, global_statistics) ==
    [summary |-> summary, files |-> files, global_statistics |-> global_statistics,
     recommendations |-> GenerateRecommendations(summary, files)]

\* QualityReportGenerator.generate_report; orders holds the iteration orders
\* for each result, global_order those for all_readings
GenerateReport(processing_results, now, orders, global_order) ==
    ReportOf(ReportSummary(processing_results),
             [i \in DOMAIN processing_results |->
                 FileReport(processing_results[i], now, orders[i])],
             CalculateStatistics(AllReadings(processing_results),
                                 global_order.types, global_order.cldns))


(***************************************************************************)
(* SummaryTableGenerator.generate_summary_table                            *)
(***************************************************************************)
\* SummaryTableGenerator._detect_file_type_from_filename
DetectFileTypeFromFilename(filename) ==
    IF EndsWith(Lower(filename), <<".", "c", "s", "v">>) THEN "CSV BlueLink"
    ELSE IF EndsWith(Lower(filename), <<".", "x", "l", "s", "x">>)
            \/ EndsWith(Lower(filename), <<".", "x", "l", "s">>) THEN "Excel BlueLink"
    ELSE IF EndsWith(Lower(filename), <<".", "x", "m", "l">>)
    THEN (IF Contains(Lower(filename), <<"e", "5", "7", "0">>)
             \/ Contains(Lower(filename),
                         <<"m", "e", "t", "e", "r", "v", "a", "l", "u", "e", "s">>)
          THEN "XML MAP110 E570"
          ELSE IF Contains(Lower(filename), <<"e", "3", "6", "0">>)
          THEN "XML MAP110 E360"
          ELSE IF Contains(Lower(filename), <<"e", "4", "5", "0">>)
                  \/ Contains(Lower(filename),
                              <<"l", "g", "z", "1", "0", "3", "0", "7", "6", "7",
                                "0", "2", "3", "6", "3", "2">>)
          THEN "XML MAP110 E450"
          ELSE "XML MAP110")
    ELSE IF EndsWith(Lower(filename), <<".", "z", "i", "p">>) THEN "ZIP"
    ELSE "Inconnu"

\* the code, unit and status SummaryTableGenerator.obis_mapping holds for a
\* reading type, or those of the entry used for a type it does not hold
SummaryObisInfo(reading_type) ==
    IF reading_type \in DOMAIN ReadingTypeToObis
    THEN [code_obis |-> ReadingTypeToObis[reading_type],
          unite     |-> RegistryUnit[reading_type],
          statut    |-> IF reading_type \in {Ch79, Ch80, Ch81, Ch82}
                        THEN "AVERTISSEMENT" ELSE "CORRECT"]
    ELSE [code_obis |-> <<"I", "N", "C", "O", "N", "N", "U">>, unite |-> "?",
          statut |-> "INCONNU"]

\* the keys (cldn, reading_type) of a result's readings, in dict order
SeriesKeys(readings) ==
    FirstOccurrences([i \in DOMAIN readings |->
        [cldn |-> readings[i].cldn, reading_type |-> readings[i].reading_type]])

\* the readings grouped under one key
SeriesOf(readings, key) ==
    SelectSeq(readings, LAMBDA r : r.cldn = key.cldn /\ r.reading_type = key.reading_type)

\* 'Nombre de canaux': channels_count of the result when it has one, else
\* the number of reading types met for the meter
ChannelsShown(result, cldn) ==
    IF result.channels_count # NoCount THEN result.channels_count
    ELSE Cardinality({r.reading_type : r \in {x \in Range(result.readings) : x.cldn = cldn}})

\* one summary_entry; dates are held as instants, 'Pourcentage' in tenths
SummaryEntry(result, key, readings, completeness) ==
    [cldn          |-> key.cldn,
     reading_type  |-> key.reading_type,
     obis          |-> SummaryObisInfo(key.reading_type),
     date_min      |-> MinInstant(TimestampsOf(readings)),
     date_max      |-> MaxInstant(TimestampsOf(readings)),
     complet       |-> completeness.complete,
     pourcentage   |-> FormatTenths(completeness.percentage),
     canaux        |-> ChannelsShown(result, key.cldn),
     mesures       |-> Len(readings),
     file_type     |-> DetectFileTypeFromFilename(result.filename),
     fichier       |-> result.filename]

ResultEntries(result) ==
    IF ~result.success \/ result.readings = <<>> THEN <<>>
    ELSE [k \in DOMAIN SeriesKeys(result.readings) |->
             SummaryEntry(result, SeriesKeys(result.readings)[k],
                          SeriesOf(result.readings, SeriesKeys(result.readings)[k]),
                          CalculateCompleteness(
                              SeriesOf(result.readings, SeriesKeys(result.readings)[k])))]

\* SummaryTableGenerator.generate_summary_table
GenerateSummaryTable(processing_results) ==
    SeqConcat([i \in DOMAIN processing_results |-> ResultEntries(processing_results[i])])


(***************************************************************************)
(* Results for the auditor: one meter read every 15 minutes, with samples  *)
(* missing, repeated and out of order, alone or together with the readings *)
(* of a second meter, and next to a file that failed.                      *)
(***************************************************************************)
MaxSeries == 3

AuditBase == CivilInstant(2025, 8, 26, 0, 0, 0)

GridMinutes == {0, 15, 30, 45, 60}

FullGrid == <<0, 15, 30, 45, 60>>

\* the grid with the sample of 00:30 missing
OneMissing == <<0, 15, 45, 60>>

GenMinuteSeries == SeqUpTo(GridMinutes, MaxSeries) \cup {FullGrid, OneMissing}

AuditName == <<"a", ".", "c", "s", "v">>

OtherName == <<"E", "3", "6", "0", ".", "X", "M", "L">>

OtherMeter == <<"L", "G", "Z", "1", "2", "3", "4", "5", "6", "7">>

\* the series of MeterId on channel 73; the k-th reading has value 1.000 + k/1000
AuditSeries(minutes) ==
    [k \in DOMAIN minutes |->
        MeterReading(PlusSeconds(AuditBase, minutes[k] * 60), 1000 + k, Ch73, "kWh",
                     DefaultQuality, MeterId)]

\* readings of a second meter: none, one that is sixteen years old and
\* negative, or two that lie 45 minutes apart
GenExtras ==
    { <<>>,
      <<MeterReading(CivilInstant(2010, 1, 1, 0, 0, 0), 0 - 5, Ch79, "kvarh",
                     DefaultQuality, OtherMeter)>>,
      <<MeterReading(PlusSeconds(AuditBase, 15 * 60), 7000, Ch79, "kvarh",
                     DefaultQuality, OtherMeter),
        MeterReading(PlusSeconds(AuditBase, 60 * 60), 8000, Ch79, "kvarh",
                     DefaultQuality, OtherMeter)>> }

AuditFile(minutes, extra) ==
    Named(IF extra = <<>> THEN AuditName ELSE OtherName,
          FileProcessingResult(TRUE, AuditSeries(minutes) \o extra, <<>>, <<>>,
                               IF extra = <<>> THEN NoCount ELSE 3))

\* a file the tabular parser returned with a row error
FailedFile ==
    Named(AuditName,
          FileProcessingResult(FALSE, AuditSeries(<<30>>),
                               <<[line |-> 5, msg |-> "Ligne mal formatee"]>>, <<>>,
                               NoCount))

GenAuditBatches ==
    UNION {{ <<AuditFile(m, x)>>, <<FailedFile, AuditFile(m, x)>> } :
              m \in GenMinuteSeries, x \in GenExtras}


(***************************************************************************)
(* The audit specification: results are handed to the auditor, one of its  *)
(* operations runs on them, and the caller takes what it returned.         *)
(***************************************************************************)
\* the readings list of a result as an in-place sort by timestamp leaves it
ReadingsSortedInPlace(readings) == SortedByTimestamp(readings)

\* the readings list of a result as the auditor leaves it: it groups into new
\* lists, sorts with sorted(), and assigns to no attribute of a reading
ReadingsAsAudited(readings) == readings

AsAudited(processing_results) ==
    [i \in DOMAIN processing_results |->
        [processing_results[i] EXCEPT !.readings = ReadingsAsAudited(@)]]

AudInit == Idle

AudSubmit ==
    /\ audFiles = <<>>
    /\ \E batch \in GenAuditBatches : audFiles' = batch
    /\ UNCHANGED <<audOp, audOut, NotAud>>

\* DataValidator.validate_readings on the readings of one result
AudValidate ==
    /\ audFiles # <<>> /\ audOp = NoOp
    /\ \E i \in DOMAIN audFiles, now \in Nows :
          \E t \in Orderings(TypeSet(audFiles[i].readings)),
             c \in Orderings(CldnSet(audFiles[i].readings)) :
              /\ audOp' = [op |-> "validate", file |-> i]
              /\ audOut' = ValidateReadings(audFiles[i].readings, now, t, c)
    /\ audFiles' = AsAudited(audFiles)
    /\ UNCHANGED NotAud

\* DataValidator._validate_data_completeness on the readings of one result
AudCompleteness ==
    /\ audFiles # <<>> /\ audOp = NoOp
    /\ \E i \in DOMAIN audFiles :
          /\ audOp' = [op |-> "completeness", file |-> i]
          /\ audOut' = ValidateDataCompleteness(audFiles[i].readings)
    /\ audFiles' = AsAudited(audFiles)
    /\ UNCHANGED NotAud

\* QualityReportGenerator.generate_report on the results
AudReport ==
    /\ audFiles # <<>> /\ audOp = NoOp
    /\ \E now \in Nows, orders \in OrderChoices(audFiles) :
          \E t \in Orderings(TypeSet(AllReadings(audFiles))),
             c \in Orderings(CldnSet(AllReadings(audFiles))) :
              audOut' = GenerateReport(audFiles, now, orders, [types |-> t, cldns |-> c])
    /\ audOp' = [op |-> "report", file |-> 0]
    /\ audFiles' = AsAudited(audFiles)
    /\ UNCHANGED NotAud

\* SummaryTableGenerator.generate_summary_table on the results
AudSummary ==
    /\ audFiles # <<>> /\ audOp = NoOp
    /\ audOp' = [op |-> "summary", file |-> 0]
    /\ audOut' = GenerateSummaryTable(audFiles)
    /\ audFiles' = AsAudited(audFiles)
    /\ UNCHANGED NotAud

\* the caller takes what the operation returned and lets go of the results
AudCollect ==
    /\ audOp # NoOp
    /\ audFiles' = <<>>
    /\ audOp' = NoOp
    /\ audOut' = NoResult
    /\ UNCHANGED NotAud

AudNext ==
    AudSubmit \/ AudValidate \/ AudCompleteness \/ AudReport \/ AudSummary \/ AudCollect

SpecAudit == AudInit /\ [][AudNext]_vars


(***************************************************************************)
(* Claims about the completeness audit                                     *)
(***************************************************************************)
AudRan(op) == audOp.op = op

\* the series of a summary entry: the readings of its file under its key
EntrySeries(entry) ==
    LET from == CHOOSE i \in DOMAIN audFiles :
                    audFiles[i].filename = entry.fichier /\ Validated(audFiles[i])
    IN  SeriesOf(audFiles[from].readings,
                 [cldn |-> entry.cldn, reading_type |-> entry.reading_type])

\* expected = floor((tN - t0) / 15 min) + 1
SeriesExpected(series) ==
    SecondsBetween(MaxInstant(TimestampsOf(series)), MinInstant(TimestampsOf(series)))
        \div 900 + 1

\* coverage = min(100, actual / expected * 100)
SeriesCoverage(series) == CapAtHundred(Ratio(Len(series) * 100, SeriesExpected(series)))

(* C11: for every non-empty series of one (meter_id, channel_id) the audit
   reports coverage = min(100, actual / expected * 100) with
   expected = floor((tN - t0) / 15 min) + 1, and complete = true exactly when
   that coverage is 100; so for a single reading, and so with duplicate
   timestamps.  Stated for the entries of the summary table and for the
   entries of the validator's completeness check. *)
C11_CoverageAndCompleteFollowFormula ==
    /\ AudRan("summary") =>
          \A k \in DOMAIN audOut :
              /\ audOut[k].pourcentage = FormatTenths(SeriesCoverage(EntrySeries(audOut[k])))
              /\ audOut[k].complet = (SeriesCoverage(EntrySeries(audOut[k])) = Hundred)
    /\ (AudRan("completeness") /\ audFiles[audOp.file].readings # <<>>) =>
          \A t \in DOMAIN audOut :
              /\ "coverage_percentage" \in DOMAIN audOut[t]
              /\ audOut[t].coverage_percentage =
                     SeriesCoverage(OfType(audFiles[audOp.file].readings, t))
              /\ audOut[t].complete = (audOut[t].coverage_percentage = Hundred)

\* s without its k-th member
RemoveAt(s, k) == SubSeq(s, 1, k - 1) \o SubSeq(s, k + 1, Len(s))

\* the series the summary table reports on
ReportedSeries == {EntrySeries(audOut[k]) : k \in DOMAIN audOut}

CoverageNotRaised(series, k) ==
    /\ RatioLeq(CalculateCompleteness(RemoveAt(series, k)).percentage,
                CalculateCompleteness(series).percentage)
    /\ RatioLeq(CalculateCoveragePercentage(RemoveAt(series, k)),
                CalculateCoveragePercentage(series))

(* C12 as stated: for every series of one channel and every reading in it,
   the coverage computed after removing that reading is at most the coverage
   computed before, the earliest and the latest reading included. *)
C12_RemovalNeverRaisesCoverage ==
    AudRan("summary") =>
        \A series \in ReportedSeries : \A k \in DOMAIN series :
            CoverageNotRaised(series, k)

\* removing the k-th reading leaves the earliest and the latest timestamp of
\* the series what they were
KeepsSpan(series, k) ==
    /\ Len(series) > 1
    /\ MinInstant(TimestampsOf(RemoveAt(series, k))) = MinInstant(TimestampsOf(series))
    /\ MaxInstant(TimestampsOf(RemoveAt(series, k))) = MaxInstant(TimestampsOf(series))

(* C12 as amended: for every series of one channel and every reading whose
   removal leaves the earliest and the latest timestamp of the series
   unchanged, the coverage computed after removing that reading is at most
   the coverage computed before. *)
C12_RemovalInsideSpanNeverRaisesCoverage ==
    AudRan("summary") =>
        \A series \in ReportedSeries : \A k \in DOMAIN series :
            KeepsSpan(series, k) => CoverageNotRaised(series, k)

\* the summary of the full grid ran: 100 %, and 80 % once 00:30 is removed
C12_Witness ==
    /\ AudRan("summary")
    /\ Len(audOut) = 1
    /\ audOut[1].mesures = 5
    /\ audOut[1].pourcentage = 1000
    /\ KeepsSpan(EntrySeries(audOut[1]), 3)
    /\ CalculateCompleteness(RemoveAt(EntrySeries(audOut[1]), 3)).percentage = Ratio(80, 1)


\* the minute of the day of 26/08/2025 a reading was taken at
MinuteOf(reading) == SecondsBetween(reading.timestamp, AuditBase) \div 60

MinutesOf(series) == {MinuteOf(series[i]) : i \in DOMAIN series}

\* at least two readings of one meter and channel, on the 15-minute grid,
\* no two at the same time
GridSeries(series) ==
    /\ Len(series) >= 2
    /\ Cardinality(TimestampsOf(series)) = Len(series)
    /\ Cardinality(TypeSet(series)) = 1 /\ Cardinality(CldnSet(series)) = 1
    /\ \A i \in DOMAIN series : series[i].timestamp = PlusSeconds(AuditBase, MinuteOf(series[i]) * 60)
    /\ MinutesOf(series) \subseteq GridMinutes

\* the grid points between the first and the last sample that have no sample
Holes(series) ==
    {m \in GridMinutes : /\ m \notin MinutesOf(series)
                         /\ m > MinOf(MinutesOf(series))
                         /\ m < MaxOf(MinutesOf(series))}

\* the gap around the one hole of a series: from the sample before it to the
\* sample after it
HoleGap(series) ==
    LET hole == CHOOSE m \in Holes(series) : TRUE
    IN  [reading_type |-> series[1].reading_type,
         start |-> PlusSeconds(AuditBase, (hole - 15) * 60),
         end   |-> PlusSeconds(AuditBase, (hole + 15) * 60)]

GapWarnings(warnings) == SelectSeq(warnings, LAMBDA w : w.msg = "Trou detecte")

\* what the audit is to report for a grid series with one interior sample
\* missing, or with none missing
GapsAsClaimed(series, gaps) ==
    /\ Cardinality(Holes(series)) = 1 => gaps = <<HoleGap(series)>>
    /\ Holes(series) = {} => gaps = <<>>

(* C13: for a channel whose readings lie on the 15-minute grid with exactly
   one interior sample missing the audit reports exactly one gap, from the
   sample before the hole to the sample after it, and complete = false
   (coverage 80 % for 00:00, 00:15, 00:45, 01:00); with no sample missing
   it reports no gap, coverage 100 % and complete = true. *)
C13_OneHoleOneGap ==
    /\ (AudRan("validate") /\ GridSeries(audFiles[audOp.file].readings)) =>
          GapsAsClaimed(audFiles[audOp.file].readings,
                        [i \in DOMAIN GapWarnings(audOut.warnings) |->
                            GapWarnings(audOut.warnings)[i].about])
    /\ (AudRan("completeness") /\ GridSeries(audFiles[audOp.file].readings)) =>
          \A t \in DOMAIN audOut :
              /\ GapsAsClaimed(audFiles[audOp.file].readings,
                               TypeGaps(t, audOut[t].gaps))
              /\ audOut[t].complete = (Holes(audFiles[audOp.file].readings) = {})
    /\ AudRan("summary") =>
          \A k \in DOMAIN audOut :
              GridSeries(EntrySeries(audOut[k])) =>
                  /\ Cardinality(Holes(EntrySeries(audOut[k]))) = 1 => ~audOut[k].complet
                  /\ MinutesOf(EntrySeries(audOut[k])) = Range(OneMissing) =>
                         audOut[k].pourcentage = 800
                  /\ Holes(EntrySeries(audOut[k])) = {} =>
                         audOut[k].complet /\ audOut[k].pourcentage = 1000

\* every operation of the auditor: it starts on results handed to it
AudOperates == audFiles # <<>> /\ audOp = NoOp /\ audOp' # NoOp

(* C14: the auditor is read-only: after validate_readings, the completeness
   check, generate_report or generate_summary_table ran on a list of results,
   every result holds the same readings in the same order, each with the same
   timestamp, value, channel, unit, quality and meter as before. *)
C14_AuditLeavesReadingsAlone ==
    [][AudOperates => audFiles' = audFiles]_vars

\* validate_readings ran on 01:00, 00:00, 00:00: it reported a duplicate and
\* a gap, and the readings are in the order they were handed over in
C14_Witness ==
    /\ AudRan("validate")
    /\ audFiles[audOp.file].readings = AuditSeries(<<60, 0, 0>>)
    /\ GapWarnings(audOut.warnings) # <<>>
    /\ \E i \in DOMAIN audOut.warnings : audOut.warnings[i].msg = "Doublon detecte"

(***************************************************************************)
(* Claims about channels_count and the order of the XML parser's readings  *)
(***************************************************************************)
\* the objects of a document that carry a buffer
ProfilesWithBuffer(doc) == {i \in DOMAIN doc.objects : doc.objects[i].buffer.present}

\* the index a capture_objects field stands at: the integer of its name
\* segment, or its place in the enumeration when the segment is no integer
LayoutIndex(fields, k) ==
    IF ParseInt(fields[k].seg).ok THEN ParseInt(fields[k].seg).value ELSE k - 1

\* the distinct codes at indices >= 2 of a profile's layout; the default
\* layout, which holds six of them, stands in for an absent or empty one
LayoutValueCodes(obj) ==
    IF ~obj.capture.present \/ obj.capture.fields = <<>>
    THEN {DefaultCaptureMap[n] : n \in {m \in DOMAIN DefaultCaptureMap : m >= 2}}
    ELSE {obj.capture.fields[k].logical_name :
             k \in {j \in DOMAIN obj.capture.fields : LayoutIndex(obj.capture.fields, j) >= 2}}

(* C15: for every XML file with a meter identifier that contains at least
   one profile object with a buffer, channels_count of the result is the
   maximum, over those profiles, of the number of distinct OBIS codes at
   indices >= 2 of the profile's layout, whatever the DDSubset of the file. *)
C15_ChannelsCountIsMaxOverProfiles ==
    (XmlParsed /\ ExtractCldn(xmlGen) # <<>> /\ ProfilesWithBuffer(xmlGen) # {}) =>
        xmlResult.channels_count =
            MaxOf({Cardinality(LayoutValueCodes(xmlGen.objects[i])) :
                      i \in ProfilesWithBuffer(xmlGen)})


\* source record a stands before source record b in the document: an
\* earlier object, or an earlier record of the same buffer
SourceBefore(a, b) == a.obj < b.obj \/ (a.obj = b.obj /\ a.rec < b.rec)

\* the readings of the result made from record rec of object obj
ReadingsFrom(obj, rec) ==
    {k \in DOMAIN xmlOrigin : xmlOrigin[k].obj = obj /\ xmlOrigin[k].rec = rec}

(* C16: the readings of a result stand in source order: when source record
   A is before source record B in the document, every reading made from A
   precedes every reading made from B; and two equal records of one buffer
   (same timestamp, same channel) each keep their readings. *)
C16_ReadingsInSourceOrder ==
    XmlParsed =>
        /\ \A j, k \in DOMAIN xmlOrigin :
              SourceBefore(xmlOrigin[j], xmlOrigin[k]) => j < k
        /\ \A i \in ProfilesWithBuffer(xmlGen) :
              \A r1, r2 \in DOMAIN xmlGen.objects[i].buffer.records :
                  xmlGen.objects[i].buffer.records[r1] = xmlGen.objects[i].buffer.records[r2]
                      => Cardinality(ReadingsFrom(i, r1)) = Cardinality(ReadingsFrom(i, r2))

(***************************************************************************)
(* BlueLinkExcelParser.  A workbook is held as what pandas reads from it:  *)
(* its sheets in order, each with the labels of its columns (the header    *)
(* row) and its data rows, a row holding one cell per column.  A cell is   *)
(* empty (NaN), a number in thousandths, a naive date-time, or text.       *)
(***************************************************************************)
NaN == [kind |-> "nan"]

NumCell(value) == [kind |-> "num", value |-> value]

TimeCell(civil) == [kind |-> "time", civil |-> civil]

TextCell(text) == [kind |-> "text", text |-> text]

Sheet(sheet_name, columns, rows) ==
    [sheet_name |-> sheet_name, columns |-> columns, rows |-> rows]

\* pd.isna
IsNa(cell) == cell.kind = "nan"

\* str() of a cell: text as it is, a date-time as YYYY-MM-DD HH:MM:SS, a
\* float with its fraction (12.0, 12.5)
StrOfCell(cell) ==
    IF cell.kind = "text" THEN cell.text
    ELSE IF cell.kind = "time"
    THEN Pad(cell.civil.y, 4) \o <<"-">> \o Pad(cell.civil.mo, 2) \o <<"-">>
         \o Pad(cell.civil.d, 2) \o <<" ">> \o Pad(cell.civil.h, 2) \o <<":">>
         \o Pad(cell.civil.mi, 2) \o <<":">> \o Pad(cell.civil.s, 2)
    ELSE Digits(cell.value \div 1000) \o <<".">>
         \o (IF cell.value % 1000 = 0 THEN <<"0">>
             ELSE IF cell.value % 100 = 0 THEN Digits((cell.value % 1000) \div 100)
             ELSE IF cell.value % 10 = 0 THEN Pad((cell.value % 1000) \div 10, 2)
             ELSE Pad(cell.value % 1000, 3))

\* the column tests of _parse_excel_sheet
IsDateCol(col) ==
    \/ Contains(Lower(col.text), <<"d", "a", "t", "e">>)
    \/ Contains(Lower(col.text), <<"t", "i", "m", "e">>)

ObisMarks ==
    {<<"1", ".", "8", ".", "0">>, <<"2", ".", "8", ".", "0">>,
     <<"5", ".", "8", ".", "0">>, <<"6", ".", "8", ".", "0">>}

IsValueCol(col) == \E obis \in ObisMarks : Contains(col.text, obis)

\* _get_reading_type_from_column
GetReadingTypeFromColumn(column_name) ==
    IF Contains(column_name, <<"1", ".", "8", ".", "0">>) THEN Ch73
    ELSE IF Contains(column_name, <<"2", ".", "8", ".", "0">>) THEN Ch74
    ELSE IF Contains(column_name, <<"5", ".", "8", ".", "0">>) THEN Ch77
    ELSE IF Contains(column_name, <<"6", ".", "8", ".", "0">>) THEN Ch78
    ELSE ""

ExcelUnit(column_name) ==
    IF Contains(column_name, <<"1", ".", "8", ".", "0">>)
       \/ Contains(column_name, <<"2", ".", "8", ".", "0">>) THEN "kWh"
    ELSE "kvarh"

\* pd.to_datetime of a cell, made UTC: a date-time cell is taken as it is,
\* a number counts nanoseconds from 1970, text that holds no date raises
ToDatetime(cell) ==
    IF cell.kind = "time"
    THEN [raised |-> FALSE,
          at |-> CivilInstant(cell.civil.y, cell.civil.mo, cell.civil.d,
                              cell.civil.h, cell.civil.mi, cell.civil.s)]
    ELSE IF cell.kind = "num"
    THEN [raised |-> FALSE, at |-> CivilInstant(1970, 1, 1, 0, 0, 0)]
    ELSE [raised |-> TRUE]

\* float() of a cell: the value in thousandths, or failure
FloatOfCell(cell) ==
    IF cell.kind = "num" THEN [ok |-> TRUE, value |-> cell.value]
    ELSE IF cell.kind = "text" THEN ParseFloat(cell.text)
    ELSE [ok |-> FALSE]

\* the value loop of one row, from column c on: it ends at the first cell
\* float() raises on, and the readings made before stay
RECURSIVE ExcelValueLoop(_, _, _, _, _)
ExcelValueLoop(columns, row, c, date_value, cldn) ==
    IF c > Len(columns) THEN <<>>
    ELSE IF ~IsValueCol(columns[c]) \/ IsNa(row[c])
    THEN ExcelValueLoop(columns, row, c + 1, date_value, cldn)
    ELSE IF ~FloatOfCell(row[c]).ok THEN <<>>
    ELSE <<MeterReading(date_value, FloatOfCell(row[c]).value,
                        GetReadingTypeFromColumn(columns[c].text),
                        ExcelUnit(columns[c].text), DefaultQuality, cldn)>>
         \o ExcelValueLoop(columns, row, c + 1, date_value, cldn)

\* the readings of one row: the first date column with a value gives the
\* timestamp; a row without one, or one to_datetime raises on, gives nothing
ExcelRowReadings(columns, row, cldn) ==
    LET dated == {c \in DOMAIN columns : IsDateCol(columns[c]) /\ ~IsNa(row[c])}
    IN  IF dated = {} THEN <<>>
        ELSE IF ToDatetime(row[MinOf(dated)]).raised THEN <<>>
        ELSE ExcelValueLoop(columns, row, 1, ToDatetime(row[MinOf(dated)]).at, cldn)

\* _parse_excel_sheet: the readings, or the exception it ends with (a column
\* label that is no text has no lower(); iloc[0, 0] of a sheet without rows)
ParseExcelSheet(df) ==
    IF \E c \in DOMAIN df.columns : df.columns[c].kind # "text"
    THEN [raised |-> TRUE, readings |-> <<>>]
    ELSE IF (\A c \in DOMAIN df.columns : ~IsDateCol(df.columns[c]))
            \/ (\A c \in DOMAIN df.columns : ~IsValueCol(df.columns[c]))
    THEN [raised |-> FALSE, readings |-> <<>>]
    ELSE IF df.rows = <<>>
    THEN [raised |-> TRUE, readings |-> <<>>]
    ELSE [raised |-> FALSE,
          readings |->
             SeqConcat([r \in DOMAIN df.rows |->
                 ExcelRowReadings(df.columns, df.rows[r],
                                  IF IsNa(df.rows[1][1]) THEN <<>>
                                  ELSE StrOfCell(df.rows[1][1]))])]

SheetError(sheet_name) == [sheet |-> sheet_name, msg |-> "Erreur dans la feuille"]

\* the sheet loop of BlueLinkExcelParser.parse
ExcelSheetLoop(sheets) ==
    [readings |-> SeqConcat([k \in DOMAIN sheets |-> ParseExcelSheet(sheets[k]).readings]),
     errors   |-> SeqConcat([k \in DOMAIN sheets |->
                     IF ParseExcelSheet(sheets[k]).raised
                     THEN <<SheetError(sheets[k].sheet_name)>> ELSE <<>>])]

ExcelReturn(loop) ==
    FileProcessingResult(Len(loop.errors) = 0, loop.readings, loop.errors,
                         IF loop.readings = <<>> THEN <<NoReadingsWarning>> ELSE <<>>,
                         NoCount)

\* BlueLinkExcelParser.parse: content that is no workbook makes
\* pd.ExcelFile raise
ExcelParse(content) ==
    IF content.kind # "workbook"
    THEN FileProcessingResult(FALSE, <<>>, <<"Erreur lors du parsing Excel">>, <<>>, NoCount)
    ELSE ExcelReturn(ExcelSheetLoop(content.sheets))

(***************************************************************************)
(* FileProcessor.  The bytes of an upload are held by what they are: text  *)
(* (its lines, a byte-order mark being the first character), an XML        *)
(* document (with or without a byte-order mark in front), a workbook (its  *)
(* sheets), or a ZIP archive (its entries in the order of the directory).  *)
(***************************************************************************)
TextContent(lines) == [kind |-> "text", lines |-> lines]

XmlContent(bom, doc) == [kind |-> "xml", bom |-> bom, doc |-> doc]

WorkbookContent(sheets) == [kind |-> "workbook", sheets |-> sheets]

ZipContent(entries) == [kind |-> "zip", entries |-> entries]

\* an archive member: its name, whether ZipFile.read returns its bytes (it
\* raises on a damaged member), and the bytes
ZipEntry(filename, readable, content) ==
    [filename |-> filename, readable |-> readable, content |-> content]

\* _decode_with_fallback: utf-8-sig is tried first and takes a byte-order
\* mark off the front; latin-1 decodes whatever utf-8 refuses
DecodeWithFallback(file_content) ==
    IF file_content.kind = "text"
    THEN [file_content EXCEPT !.lines = HandleUtf8Bom(file_content.lines)]
    ELSE IF file_content.kind = "xml" THEN [file_content EXCEPT !.bom = FALSE]
    ELSE file_content

\* the decoded text as the tabular parser sees it; a document is written on
\* one line, and the bytes of a workbook or an archive decode to one line
\* of no meaning
LinesOf(content) ==
    IF content.kind = "text" THEN content.lines
    ELSE IF content.kind = "xml" THEN << <<"<", "D", "D", ">">> >>
    ELSE << <<"P", "K">> >>

\* a parse that hands back a reading together with its error
XmlParseTextKeepingReadings(content, now) ==
    IF content.kind = "xml" /\ ~content.bom THEN XmlParse(content.doc, now).result
    ELSE [XmlFail("Erreur de parsing XML").result EXCEPT
             !.readings = <<MeterReading(ExampleInstant, 1000, Ch73, "kWh",
                                         DefaultQuality, <<>>)>>]

\* MAP110XMLParser.parse on decoded text: ET.fromstring raises ParseError on
\* what is no document, and on a byte-order mark before one
XmlParseText(content, now) ==
    IF content.kind = "xml" /\ ~content.bom THEN XmlParse(content.doc, now).result
    ELSE XmlFail("Erreur de parsing XML").result

\* filename.lower().split('.')[-1]
FileExt(filename) == Split(Lower(filename), ".")[Len(Split(Lower(filename), "."))]

ExtCsv == <<"c", "s", "v">>

ExtXml == <<"x", "m", "l">>

ExtXlsx == <<"x", "l", "s", "x">>

ExtXls == <<"x", "l", "s">>

\* a result without readings: FileProcessingResult(filename, False, ...)
FailedResult(filename, errors, warnings) ==
    Named(filename, FileProcessingResult(FALSE, <<>>, errors, warnings, NoCount))

\* the dispatch of process_file on file_ext: the result, and the parser
\* that made it
Dispatch(file_content, filename, file_ext, now) ==
    IF file_ext = ExtCsv
    THEN [parser |-> "csv",
          result |-> Named(filename, CsvParse(LinesOf(DecodeWithFallback(file_content))))]
    ELSE IF file_ext = ExtXml
    THEN [parser |-> "xml",
          result |-> Named(filename, XmlParseText(DecodeWithFallback(file_content), now))]
    ELSE IF file_ext \in {ExtXlsx, ExtXls}
    THEN [parser |-> "excel", result |-> Named(filename, ExcelParse(file_content))]
    ELSE [parser |-> "none",
          result |-> FailedResult(filename, <<"Format de fichier non supporte">>, <<>>)]

\* FileProcessor.process_file
ProcessFile(file_content, filename, now) ==
    Dispatch(file_content, filename, FileExt(filename), now)

\* ZipInfo.is_dir
IsDir(filename) == EndsWith(filename, <<"/">>)

\* what process_zip appends for one member of the archive
ProcessEntry(entry, file_ext, now) ==
    IF IsDir(entry.filename) THEN <<>>
    ELSE IF file_ext \in {ExtCsv, ExtXml, ExtXlsx, ExtXls}
    THEN (IF entry.readable
          THEN <<ProcessFile(entry.content, entry.filename, now)>>
          ELSE <<[parser |-> "none",
                  result |-> FailedResult(entry.filename,
                                          <<"Erreur lors de l'extraction">>, <<>>)]>>)
    ELSE <<[parser |-> "none",
            result |-> FailedResult(entry.filename, <<>>,
                                    <<"Format de fichier ignore">>)]>>

\* FileProcessor.process_zip; nows[k] is the clock while member k is parsed.
\* Bytes that are no archive make ZipFile raise BadZipFile.
ProcessZip(zip_content, zip_filename, nows) ==
    IF zip_content.kind # "zip"
    THEN <<[parser |-> "none",
            result |-> FailedResult(zip_filename, <<"Fichier ZIP corrompu">>, <<>>)]>>
    ELSE SeqConcat([k \in DOMAIN zip_content.entries |->
             ProcessEntry(zip_content.entries[k],
                          FileExt(zip_content.entries[k].filename), nows[k])])

(***************************************************************************)
(* Uploads for the FileProcessor                                           *)
(***************************************************************************)
\* names that end in a known extension, in either case and after other
\* dots; names that end in another one; names without a dot
GenNames ==
    {<<"a", ".", "c", "s", "v">>, <<"A", ".", "C", "S", "V">>,
     <<"a", ".", "x", "m", "l", ".", "c", "s", "v">>,
     <<"e", ".", "x", "m", "l">>, <<"E", ".", "X", "m", "l">>,
     <<"b", ".", "x", "l", "s", "x">>, <<"b", ".", "x", "l", "s">>,
     <<"a", ".", "t", "x", "t">>, <<"a", ".", "c", "s", "v", ".", "b", "a", "k">>,
     <<"z", ".", "z", "i", "p">>,
     <<"c", "s", "v">>, <<"X", "M", "L">>, <<"x", "l", "s">>, <<"d", "a", "t", "a">>}

PlainShape == [blank |-> 0, bom |-> FALSE, cut |-> FALSE, sep |-> ","]

BomShape == [blank |-> 0, bom |-> TRUE, cut |-> FALSE, sep |-> ","]

QuarterPast == [kind |-> "data", ts |-> Civil(2025, 8, 26, 0, 15, 0), vals |-> <<1234>>]

\* a tabular file of one reading, the same behind a byte-order mark, one
\* with a malformed row after the reading, and two characters of text
GenTexts ==
    {TextContent(RenderFile([shape |-> sh, id |-> MeterId, header |-> <<Dotted(1, 0)>>,
                             rows |-> rs])) :
        sh \in {PlainShape, BomShape},
        rs \in {<<QuarterPast>>, <<QuarterPast, [kind |-> "garbage"]>>}}
    \cup {TextContent(<< <<"x", "x">> >>)}

\* a document with one profile record, and one whose register is stamped
\* with the clock because the document has no modification time
RecordDoc ==
    Document(MeterId, <<>>, "ProfileBuffer", FileStamp,
             <<Profile(LN(99, 1, 0), EnergyLayout, FALSE, <<GoodRecord>>)>>)

ClockDoc == Document(MeterId, <<>>, "BillingValues", NoStamp, <<GoodRegister>>)

GenXmls == {XmlContent(bom, doc) : bom \in BOOLEAN, doc \in {RecordDoc, ClockDoc}}

DateLabel == TextCell(<<"D", "a", "t", "e">>)

IdLabel == TextCell(<<"I", "d">>)

ImportLabel == TextCell(<<"1", ".", "8", ".", "0">>)

ExportLabel == TextCell(<<"2", ".", "8", ".", "0">>)

\* a sheet whose first cell names the meter, and one whose first cell is empty
NamedSheet ==
    Sheet("S1", <<IdLabel, DateLabel, ImportLabel>>,
          <<<<TextCell(MeterId), TimeCell(Civil(2025, 8, 26, 0, 15, 0)), NumCell(1234)>>,
            <<NaN, TimeCell(Civil(2025, 8, 26, 0, 30, 0)), NumCell(1300)>>>>)

AnonymousSheet ==
    Sheet("S2", <<IdLabel, DateLabel, ImportLabel, ExportLabel>>,
          <<<<NaN, TimeCell(Civil(2025, 8, 26, 0, 15, 0)), NumCell(1234), TextCell(<<"x">>)>>,
            <<NaN, TextCell(<<"x">>), NumCell(1), NaN>>,
            <<NaN, TimeCell(Civil(2025, 8, 26, 0, 30, 0)), NaN, NumCell(5)>>>>)

\* a sheet with labels and no row, one with a year for a label, and one
\* without a value column
EmptySheet == Sheet("S3", <<DateLabel, ImportLabel>>, <<>>)

YearSheet == Sheet("S4", <<DateLabel, NumCell(2025000)>>, <<<<NaN, NumCell(1)>>>>)

NotesSheet == Sheet("S5", <<IdLabel>>, <<<<TextCell(<<"x">>)>>>>)

GenBooks ==
    {WorkbookContent(sheets) :
        sheets \in {<<NamedSheet>>, <<AnonymousSheet>>, <<NotesSheet>>,
                    <<AnonymousSheet, EmptySheet>>, <<YearSheet, NamedSheet>>,
                    <<NamedSheet, AnonymousSheet>>}}

GenFileContents == GenTexts \cup GenXmls \cup GenBooks

\* members of an archive: a folder, files the processor reads, a damaged
\* one, one it ignores, and one whose name has no dot
GenEntries ==
    {ZipEntry(<<"d", "/">>, TRUE, TextContent(<<>>)),
     ZipEntry(<<"d", "/", "a", ".", "c", "s", "v">>, TRUE,
              TextContent(RenderFile([shape |-> PlainShape, id |-> MeterId,
                                      header |-> <<Dotted(1, 0)>>, rows |-> <<QuarterPast>>]))),
     ZipEntry(<<"a", ".", "C", "S", "V">>, TRUE, TextContent(<< <<"x", "x">> >>)),
     ZipEntry(<<"e", ".", "x", "m", "l">>, TRUE, XmlContent(FALSE, ClockDoc)),
     ZipEntry(<<"e", ".", "x", "m", "l">>, FALSE, XmlContent(FALSE, RecordDoc)),
     ZipEntry(<<"b", ".", "x", "l", "s", "x">>, TRUE,
              WorkbookContent(<<AnonymousSheet, EmptySheet>>)),
     ZipEntry(<<"r", ".", "t", "x", "t">>, TRUE, TextContent(<< <<"x", "x">> >>)),
     ZipEntry(<<"c", "s", "v">>, TRUE, TextContent(<< <<"x", "x">> >>))}

MaxEntries == 2

GenArchives == {ZipContent(es) : es \in SeqUpTo(GenEntries, MaxEntries)}

Upload(name, content) == [name |-> name, content |-> content]

GenUploads ==
    {Upload(n, c) : n \in GenNames, c \in GenFileContents}
    \cup {Upload(n, c) : n \in {<<"z", ".", "z", "i", "p">>, <<"Z", ".", "Z", "I", "P">>},
                         c \in GenArchives}
    \cup {Upload(<<"a", ".", "c", "s", "v">>, ZipContent(<<>>))}

(***************************************************************************)
(* The FileProcessor specification: an upload is handed to process_file or *)
(* to process_zip, and the results are collected.  The clock is read anew  *)
(* for every file that is parsed.                                          *)
(***************************************************************************)
FpInit == Idle

FpSubmit ==
    /\ fpGen = NoFile
    /\ \E u \in GenUploads : fpGen' = u
    /\ UNCHANGED <<fpNows, fpOut, fpCalls, NotFp>>

FpProcessFile ==
    /\ fpGen # NoFile
    /\ fpCalls = NoCalls
    /\ \E now \in Nows :
          \E done \in {ProcessFile(fpGen.content, fpGen.name, now)} :
              /\ fpNows' = <<now>>
              /\ fpOut' = <<done.result>>
              /\ fpCalls' = [op |-> "file", parsers |-> <<done.parser>>]
    /\ UNCHANGED <<fpGen, NotFp>>

\* the clock of each member's parse
EntryClocks(content) ==
    IF content.kind = "zip" THEN [DOMAIN content.entries -> Nows] ELSE {<<>>}

FpProcessZip ==
    /\ fpGen # NoFile
    /\ fpCalls = NoCalls
    /\ \E nows \in EntryClocks(fpGen.content) :
          \E done \in {ProcessZip(fpGen.content, fpGen.name, nows)} :
              /\ fpNows' = nows
              /\ fpOut' = [k \in DOMAIN done |-> done[k].result]
              /\ fpCalls' = [op |-> "zip", parsers |-> [k \in DOMAIN done |-> done[k].parser]]
    /\ UNCHANGED <<fpGen, NotFp>>

\* the caller takes the results; the processor keeps nothing of the upload
FpCollect ==
    /\ fpCalls # NoCalls
    /\ fpGen' = NoFile
    /\ fpNows' = <<>>
    /\ fpOut' = <<>>
    /\ fpCalls' = NoCalls
    /\ UNCHANGED NotFp

FpNext == FpSubmit \/ FpProcessFile \/ FpProcessZip \/ FpCollect

SpecFiles == FpInit /\ [][FpNext]_vars

(***************************************************************************)
(* Claims about the FileProcessor                                          *)
(***************************************************************************)
\* the final extension of a file name, lower-cased: the text after its last
\* dot; a name without a dot has none
FinalExtension(filename) ==
    IF "." \in Range(filename) THEN FileExt(filename) ELSE <<>>

\* the parser an extension stands for
ParserFor(extension) ==
    IF extension = ExtCsv THEN "csv"
    ELSE IF extension = ExtXml THEN "xml"
    ELSE IF extension \in {ExtXlsx, ExtXls} THEN "excel"
    ELSE "none"

FailsWithOneError(result) ==
    ~result.success /\ Len(result.errors) = 1 /\ result.readings = <<>>

(* C17: process_file dispatches on the lower-cased final extension of the
   file name alone: csv goes to the tabular parser, xml to the XML parser,
   xlsx and xls to the spreadsheet parser; for any other name no parser is
   invoked and the result has success = false, one error and no readings. *)
C17_DispatchOnFinalExtension ==
    fpCalls.op = "file" =>
        /\ fpCalls.parsers[1] = ParserFor(FinalExtension(fpGen.name))
        /\ ParserFor(FinalExtension(fpGen.name)) = "none" => FailsWithOneError(fpOut[1])

\* the places of the members of an archive that are no folders, in order
RECURSIVE FilePlaces(_, _)
FilePlaces(entries, k) ==
    IF k > Len(entries) THEN <<>>
    ELSE (IF IsDir(entries[k].filename) THEN <<>> ELSE <<k>>) \o FilePlaces(entries, k + 1)

WarningOnly(result) ==
    Len(result.warnings) = 1 /\ result.errors = <<>> /\ result.readings = <<>>

\* result stands for member k of the archive as the claim has it
EntryResultAsClaimed(result, entry, now) ==
    /\ result.filename = entry.filename
    /\ IF ParserFor(FinalExtension(entry.filename)) = "none" THEN WarningOnly(result)
       ELSE IF entry.readable
       THEN result = ProcessFile(entry.content, entry.filename, now).result
       ELSE ~result.success

(* C18: process_zip returns one result for each member of the archive that
   is no folder, in the order of the archive: a member with extension csv,
   xml, xlsx or xls has the result of process_file, any other member a
   result with one warning, no error and no reading; a member that fails
   does not keep the later ones from being processed; bytes that are no
   archive give a single result with success = false. *)
C18_OneResultPerArchiveMember ==
    fpCalls.op = "zip" =>
        IF fpGen.content.kind = "zip"
        THEN /\ Len(fpOut) = Len(FilePlaces(fpGen.content.entries, 1))
             /\ \A k \in DOMAIN fpOut :
                   EntryResultAsClaimed(
                       fpOut[k],
                       fpGen.content.entries[FilePlaces(fpGen.content.entries, 1)[k]],
                       fpNows[FilePlaces(fpGen.content.entries, 1)[k]])
        ELSE Len(fpOut) = 1 /\ ~fpOut[1].success

(***************************************************************************)
(* process_files (src/app.py): the uploads of a batch are processed one    *)
(* after the other; after each of them force_cldn, when it is set, is      *)
(* applied to all the results collected so far.                            *)
(***************************************************************************)
\* uploaded_file.name.lower().endswith('.zip')
IsZipName(name) == EndsWith(Lower(name), <<".", "z", "i", "p">>)

\* the readings of one result after force_cldn was applied to them
ForcedReadings(readings, force_cldn) ==
    [j \in DOMAIN readings |->
        IF readings[j].cldn = <<>> THEN [readings[j] EXCEPT !.cldn = force_cldn]
        ELSE readings[j]]

\* the application of force_cldn to processing_results
ApplyForceCldn(processing_results, force_cldn) ==
    IF force_cldn = <<>> THEN processing_results
    ELSE [k \in DOMAIN processing_results |->
             IF processing_results[k].success /\ processing_results[k].readings # <<>>
             THEN [processing_results[k] EXCEPT
                      !.readings = ForcedReadings(processing_results[k].readings, force_cldn)]
             ELSE processing_results[k]]

\* uploads of a batch: a tabular file with its identifier, workbooks whose
\* readings have none (one of them with a sheet that fails), a workbook of
\* both kinds of sheet, a document, a file that is refused, and an archive
GenBatchUploads ==
    {Upload(<<"a", ".", "c", "s", "v">>,
            TextContent(RenderFile([shape |-> PlainShape, id |-> MeterId,
                                    header |-> <<Dotted(1, 0)>>, rows |-> <<QuarterPast>>]))),
     Upload(<<"b", ".", "x", "l", "s", "x">>, WorkbookContent(<<AnonymousSheet>>)),
     Upload(<<"c", ".", "x", "l", "s", "x">>, WorkbookContent(<<AnonymousSheet, EmptySheet>>)),
     Upload(<<"d", ".", "x", "l", "s">>, WorkbookContent(<<NamedSheet, AnonymousSheet>>)),
     Upload(<<"e", ".", "x", "m", "l">>, XmlContent(FALSE, ClockDoc)),
     Upload(<<"a", ".", "t", "x", "t">>, TextContent(<< <<"x", "x">> >>)),
     Upload(<<"z", ".", "Z", "I", "P">>,
            ZipContent(<<ZipEntry(<<"b", ".", "x", "l", "s", "x">>, TRUE,
                                  WorkbookContent(<<AnonymousSheet>>)),
                         ZipEntry(<<"r", ".", "t", "x", "t">>, TRUE,
                                  TextContent(<< <<"x", "x">> >>))>>))}

MaxBatch == 2

ForcedId == <<"F", "1">>

BatInit == Idle

BatSubmit ==
    /\ batFiles = <<>>
    /\ \E files \in SeqUpTo(GenBatchUploads, MaxBatch) :
          /\ files # <<>>
          /\ batFiles' = files
    /\ \E force_cldn \in {<<>>, ForcedId} : batForce' = force_cldn
    /\ UNCHANGED <<batDone, batResults, batParsed, NotBat>>

\* one turn of the loop for an upload that is no archive
BatProcessFile ==
    /\ batDone < Len(batFiles)
    /\ ~IsZipName(batFiles[batDone + 1].name)
    /\ \E now \in Nows :
          \E done \in {ProcessFile(batFiles[batDone + 1].content,
                                   batFiles[batDone + 1].name, now)} :
              /\ batParsed' = Append(batParsed, done.result)
              /\ batResults' = ApplyForceCldn(Append(batResults, done.result), batForce)
    /\ batDone' = batDone + 1
    /\ UNCHANGED <<batFiles, batForce, NotBat>>

\* one turn of the loop for an archive
BatProcessZip ==
    /\ batDone < Len(batFiles)
    /\ IsZipName(batFiles[batDone + 1].name)
    /\ \E nows \in EntryClocks(batFiles[batDone + 1].content) :
          \E done \in {ProcessZip(batFiles[batDone + 1].content,
                                  batFiles[batDone + 1].name, nows)} :
              /\ batParsed' = batParsed \o [k \in DOMAIN done |-> done[k].result]
              /\ batResults' =
                    ApplyForceCldn(batResults \o [k \in DOMAIN done |-> done[k].result],
                                   batForce)
    /\ batDone' = batDone + 1
    /\ UNCHANGED <<batFiles, batForce, NotBat>>

\* the batch is through: the results are shown, and the next batch starts
\* from nothing
BatCollect ==
    /\ batFiles # <<>>
    /\ batDone = Len(batFiles)
    /\ batFiles' = <<>>
    /\ batForce' = <<>>
    /\ batDone' = 0
    /\ batResults' = <<>>
    /\ batParsed' = <<>>
    /\ UNCHANGED NotBat

BatNext == BatSubmit \/ BatProcessFile \/ BatProcessZip \/ BatCollect

SpecBatch == BatInit /\ [][BatNext]_vars

(***************************************************************************)
(* Claims about the forced meter identifier                                *)
(***************************************************************************)
BatchDone == batFiles # <<>> /\ batDone = Len(batFiles)

(* C19: when force_cldn is set, after a batch is processed every reading of
   every result has a meter identifier: a reading the parser gave none
   carries force_cldn, a reading the parser gave one keeps it; and applying
   force_cldn once more changes nothing. *)
C19_ForcedMeterIdFillsEmpty ==
    (BatchDone /\ batForce # <<>>) =>
        /\ \A k \in DOMAIN batResults :
              \A j \in DOMAIN batResults[k].readings :
                  /\ batResults[k].readings[j].cldn # <<>>
                  /\ batParsed[k].readings[j].cldn = <<>>
                        => batResults[k].readings[j].cldn = batForce
                  /\ batParsed[k].readings[j].cldn # <<>>
                        => batResults[k].readings[j].cldn = batParsed[k].readings[j].cldn
        /\ ApplyForceCldn(batResults, batForce) = batResults

(***************************************************************************)
(* Workers that decode uploads through one shared FileProcessor            *)
(* (src/parsers.py).  The processor holds its three parsers and nothing    *)
(* else; a decode reads its arguments and the wall clock of the process.   *)
(***************************************************************************)
\* the instants the wall clock goes through
WallClock == <<CivilInstant(2026, 11, 2, 9, 0, 0), CivilInstant(2026, 11, 2, 9, 0, 1)>>

\* uploads the workers are given: a tabular file, a document whose records
\* carry their own date, and a document that has no date of its own
GenWorkerUploads ==
    {Upload(<<"a", ".", "c", "s", "v">>,
            TextContent(RenderFile([shape |-> PlainShape, id |-> MeterId,
                                    header |-> <<Dotted(1, 0)>>, rows |-> <<QuarterPast>>]))),
     Upload(<<"r", ".", "x", "m", "l">>, XmlContent(FALSE, RecordDoc)),
     Upload(<<"e", ".", "x", "m", "l">>, XmlContent(FALSE, ClockDoc))}

MaxJobs == 2

WkInit == Idle

WkSubmit ==
    /\ \A w \in Workers : wkJobs[w] = <<>>
    /\ \E jobs \in [Workers -> SeqUpTo(GenWorkerUploads, MaxJobs) \ {<<>>}] : wkJobs' = jobs
    /\ UNCHANGED <<wkOut, wkClock, NotWk>>

\* time passes
WkTick ==
    /\ \E w \in Workers : wkJobs[w] # <<>>
    /\ wkClock < Len(WallClock)
    /\ wkClock' = wkClock + 1
    /\ UNCHANGED <<wkJobs, wkOut, NotWk>>

\* worker w decodes its next upload with process_file
WkDecode(w) ==
    /\ Len(wkOut[w]) < Len(wkJobs[w])
    /\ \E done \in {ProcessFile(wkJobs[w][Len(wkOut[w]) + 1].content,
                                wkJobs[w][Len(wkOut[w]) + 1].name, WallClock[wkClock])} :
          wkOut' = [wkOut EXCEPT ![w] = Append(@, done.result)]
    /\ UNCHANGED <<wkJobs, wkClock, NotWk>>

\* every worker is through: the results are taken and the process starts
\* afresh
WkCollect ==
    /\ \A w \in Workers : wkJobs[w] # <<>> /\ Len(wkOut[w]) = Len(wkJobs[w])
    /\ wkJobs' = [w \in Workers |-> <<>>]
    /\ wkOut' = [w \in Workers |-> <<>>]
    /\ wkClock' = 1
    /\ UNCHANGED NotWk

WkNext == WkSubmit \/ WkTick \/ (\E w \in Workers : WkDecode(w)) \/ WkCollect

SpecWorkers == WkInit /\ [][WkNext]_vars

(* C20: the result of a decode depends only on the name and the content of
   the upload: whenever two decodes, by the same worker or by two workers,
   in any interleaving and after any other decodes, were given the same
   upload, their results are the same. *)
C20_ResultDependsOnFileOnly ==
    \A w1 \in Workers, w2 \in Workers :
        \A i \in DOMAIN wkOut[w1], j \in DOMAIN wkOut[w2] :
            wkJobs[w1][i] = wkJobs[w2][j] => wkOut[w1][i] = wkOut[w2][j]

(***************************************************************************)
(* EnergyWorxExporter (src/export.py): readings are grouped by identifier  *)
(* and reading type, and each group becomes one meter reading with one     *)
(* interval block.                                                         *)
(***************************************************************************)
\* the civil date of a day number
CivilFromDays(z) ==
    LET zz  == z + 719468
        era == zz \div 146097
        doe == zz - era * 146097
        yoe == (doe - doe \div 1460 + doe \div 36524 - doe \div 146096) \div 365
        doy == doe - (365 * yoe + yoe \div 4 - yoe \div 100)
        mp  == (5 * doy + 2) \div 153
        d   == doy - (153 * mp + 2) \div 5 + 1
        m   == IF mp < 10 THEN mp + 3 ELSE mp - 9
        y   == yoe + era * 400 + (IF m <= 2 THEN 1 ELSE 0)
    IN  [y |-> y, mo |-> m, d |-> d]

\* datetime.isoformat() of an instant in UTC with no fraction of a second
IsoFormat(t) ==
    LET c == CivilFromDays(t.day)
    IN  Pad(c.y, 4) \o <<"-">> \o Pad(c.mo, 2) \o <<"-">> \o Pad(c.d, 2) \o <<"T">>
        \o Pad(t.sec \div 3600, 2) \o <<":">> \o Pad((t.sec % 3600) \div 60, 2)
        \o <<":">> \o Pad(t.sec % 60, 2) \o <<"+", "0", "0", ":", "0", "0">>

\* int(value): the fraction is cut off, towards zero
IntOf(value) == IF value >= 0 THEN value \div 1000 ELSE 0 - ((0 - value) \div 1000)

\* str(int(value))
StrInt(value) ==
    IF IntOf(value) >= 0 THEN Digits(IntOf(value)) ELSE <<"-">> \o Digits(0 - IntOf(value))

\* the ReadingQualities of every exported reading
ExportQualities == <<"1.4.9", "1.4.16">>

IntervalReading(reading) ==
    [timeStamp |-> IsoFormat(reading.timestamp),
     value |-> StrInt(reading.value),
     ReadingQualities |-> ExportQualities]

\* _group_readings: the keys in the order of their first reading
GroupKeys(readings) ==
    FirstOccurrences([k \in DOMAIN readings |->
                         <<readings[k].cldn, readings[k].reading_type>>])

GroupOf(readings, key) ==
    SelectSeq(readings, LAMBDA r : <<r.cldn, r.reading_type>> = key)

\* _create_interval_block
CreateIntervalBlock(readings, reading_type) ==
    LET sorted_readings == SortedByTimestamp(readings)
    IN  [IntervalReadings |-> [k \in DOMAIN sorted_readings |->
                                  IntervalReading(sorted_readings[k])],
         ReadingType |-> reading_type]

\* export_readings: the MeterReadings of the payload
ExportReadings(readings) ==
    LET keys == GroupKeys(readings)
    IN  [g \in DOMAIN keys |->
            [mRID |-> keys[g][1],
             IntervalBlocks |-> <<CreateIntervalBlock(GroupOf(readings, keys[g]),
                                                       keys[g][2])>>]]

\* readings as the parsers make them: two meters, two channels, two
\* instants, a value with a fraction and one without, the three qualities
GenExportReadings ==
    {MeterReading(timestamp, value, reading_type, "kWh", quality, cldn) :
        timestamp \in {CivilInstant(2025, 8, 26, 0, 15, 0), CivilInstant(2025, 8, 26, 0, 30, 0)},
        value \in {1234, 12000},
        reading_type \in {Ch73, Ch74},
        quality \in {"1.4.9", "1.4.8", "1.4.10"},
        cldn \in {MeterId, OtherMeter}}

MaxExport == 2

ExpInit == Idle

ExpSubmit ==
    /\ expIn = NoExport
    /\ \E readings \in SeqUpTo(GenExportReadings, MaxExport) :
          expIn' = [readings |-> readings]
    /\ UNCHANGED <<expOut, NotExp>>

ExpExport ==
    /\ expIn # NoExport
    /\ expOut = NoExport
    /\ expOut' = [MeterReadings |-> ExportReadings(expIn.readings)]
    /\ UNCHANGED <<expIn, NotExp>>

ExpCollect ==
    /\ expOut # NoExport
    /\ expIn' = NoExport
    /\ expOut' = NoExport
    /\ UNCHANGED NotExp

ExpNext == ExpSubmit \/ ExpExport \/ ExpCollect

SpecExport == ExpInit /\ [][ExpNext]_vars

Exported == expIn # NoExport /\ expOut # NoExport

\* the interval readings of the blocks of the pair (cldn, reading_type)
EntriesFor(cldn, reading_type) ==
    SeqConcat([g \in DOMAIN expOut.MeterReadings |->
        IF expOut.MeterReadings[g].mRID = cldn
           /\ expOut.MeterReadings[g].IntervalBlocks[1].ReadingType = reading_type
        THEN expOut.MeterReadings[g].IntervalBlocks[1].IntervalReadings
        ELSE <<>>])

\* the canonical tag of the quality of reading r is among the qualities of
\* entry e, and e is given as plain good only if r is
CarriesQuality(e, r) ==
    /\ r.quality \in Range(e.ReadingQualities)
    /\ "1.4.9" \in Range(e.ReadingQualities) => r.quality = "1.4.9"

Count(s, Test(_)) == Len(SelectSeq(s, Test))

AllEntries ==
    SeqConcat([g \in DOMAIN expOut.MeterReadings |->
                  expOut.MeterReadings[g].IntervalBlocks[1].IntervalReadings])

\* every reading is placed once, in the block of its own pair
PlacedOnce ==
    /\ Len(AllEntries) = Len(expIn.readings)
    /\ \A k \in DOMAIN expIn.readings :
          LET r == expIn.readings[k]
          IN  Count(EntriesFor(r.cldn, r.reading_type),
                    LAMBDA e : e.timeStamp = IsoFormat(r.timestamp)) =
              Count(expIn.readings,
                    LAMBDA q : /\ q.cldn = r.cldn
                               /\ q.reading_type = r.reading_type
                               /\ q.timestamp = r.timestamp)

\* within a block the entries go by timestamp
BlocksOrdered ==
    \A g \in DOMAIN expOut.MeterReadings :
        LET entries == expOut.MeterReadings[g].IntervalBlocks[1].IntervalReadings
        IN  \A i \in DOMAIN entries, j \in DOMAIN entries :
                i < j =>
                    \A a \in DOMAIN expIn.readings, b \in DOMAIN expIn.readings :
                        (/\ IsoFormat(expIn.readings[a].timestamp) = entries[i].timeStamp
                         /\ IsoFormat(expIn.readings[b].timestamp) = entries[j].timeStamp)
                            => ~Before(expIn.readings[b].timestamp, expIn.readings[a].timestamp)

\* the entries of a reading's timestamp in its block are as many with its
\* quality as there are readings with it
QualitiesKept ==
    \A k \in DOMAIN expIn.readings :
        LET r == expIn.readings[k]
        IN  Count(EntriesFor(r.cldn, r.reading_type),
                  LAMBDA e : e.timeStamp = IsoFormat(r.timestamp) /\ CarriesQuality(e, r)) =
            Count(expIn.readings,
                  LAMBDA q : /\ q.cldn = r.cldn
                             /\ q.reading_type = r.reading_type
                             /\ q.timestamp = r.timestamp
                             /\ q.quality = r.quality)

(* C21: export_readings places each reading it is given exactly once, in
   the interval block of its own identifier and reading type, the entries
   of a block going by timestamp, and the qualities of an entry are the tag
   of its reading's quality: a reading of quality 1.4.8 or 1.4.10 is not
   exported as 1.4.9. *)
C21_ExportKeepsReadingsAndQuality ==
    Exported => (PlacedOnce /\ BlocksOrdered /\ QualitiesKept)

(***************************************************************************)
(* Claims about the capture layout                                         *)
(***************************************************************************)
(* C22: in the flat traversal as in the selector-response one, the reading
   made from the value at index i >= 2 of a buffer record is on the channel
   of the code the profile's capture layout holds at i, not on that of the
   profile object's own logical name. *)
C22_BufferReadingOnLayoutChannel ==
    XmlParsed =>
        \A k \in BufferOrigins :
            LET src     == xmlOrigin[k]
                capture == ParseCaptureObjects(SourceObject(src))
            IN  /\ ~capture.raised
                /\ src.idx \in DOMAIN capture.map
                /\ xmlResult.readings[k].reading_type =
                      GetReadingTypeFromLogicalName(capture.map[src.idx])

\* the profiles of a document whose capture_objects hold a logical_name
\* field with no integer at the place of the index: those for which the
\* resolver has to fall back on the order of enumeration
ProfilesOfUnnumberedLayout(doc) ==
    {i \in ProfilesWithBuffer(doc) :
        /\ doc.objects[i].logical_name # <<>>
        /\ doc.objects[i].capture.present
        /\ \E k \in DOMAIN doc.objects[i].capture.fields :
              /\ doc.objects[i].capture.fields[k].ftype = "OctetString"
              /\ doc.objects[i].capture.fields[k].logical_name # <<>>
              /\ ~ParseInt(doc.objects[i].capture.fields[k].seg).ok}

(* C23: a logical_name field of capture_objects whose name has no integer
   index does not make the parse fail: the parse of a profile-buffer
   document that holds such a field (and a meter identifier) still returns at
   its end, with success true and a channels count from the layout. *)
C23_UnnumberedFieldDoesNotFailParse ==
    (/\ XmlParsed
     /\ DetectFileType(xmlGen) = "ProfileBuffer"
     /\ ExtractCldn(xmlGen) # <<>>
     /\ ProfilesOfUnnumberedLayout(xmlGen) # {})
        => (xmlResult.success /\ xmlResult.errors = <<>> /\ xmlResult.channels_count # NoCount)

\* the logical_name fields of a capture_objects attribute that count: those
\* of type OctetString with a value
NamedFields(obj) ==
    SelectSeq(obj.capture.fields, LAMBDA f : f.ftype = "OctetString" /\ f.logical_name # <<>>)

\* the default layout of eight entries
DefaultLayout ==
    [n \in 0..7 |->
        CASE n = 0 -> <<"0", "0", "0", "0", "0", "1", "0", "0", "0", "0", "F", "F">>
          [] n = 1 -> <<"0", "0", "0", "0", "6", "0", "0", "A", "0", "1", "F", "F">>
          [] n = 2 -> LN(1, 8, 0)
          [] n = 3 -> LN(2, 8, 0)
          [] n = 4 -> LN(5, 8, 0)
          [] n = 5 -> LN(6, 8, 0)
          [] n = 6 -> LN(7, 8, 0)
          [] n = 7 -> LN(8, 8, 0)]

\* the profiles whose layout the parse of a document resolves
ResolvedProfiles(doc) ==
    IF DetectFileType(doc) # "ProfileBuffer" THEN {}
    ELSE {i \in ProfilesWithBuffer(doc) : doc.objects[i].logical_name # <<>>}

\* what the resolver has to return for a profile
LayoutAsClaimed(obj, capture) ==
    /\ ~capture.raised
    /\ IF ~obj.capture.present \/ NamedFields(obj) = <<>>
       THEN capture.map = DefaultLayout
       ELSE /\ \A k \in DOMAIN NamedFields(obj) :
                  /\ ParseInt(NamedFields(obj)[k].seg).ok
                  /\ ParseInt(NamedFields(obj)[k].seg).value \in DOMAIN capture.map
                  /\ capture.map[ParseInt(NamedFields(obj)[k].seg).value]
                        = NamedFields(obj)[k].logical_name
            /\ \A n \in DOMAIN capture.map :
                  \E k \in DOMAIN NamedFields(obj) :
                      /\ ParseInt(NamedFields(obj)[k].seg).ok
                      /\ ParseInt(NamedFields(obj)[k].seg).value = n

(* C24: for every profile whose layout a parse resolves, the resolver
   returns the default layout of eight entries when capture_objects is
   absent or holds no logical_name of type OctetString with a value, and
   otherwise exactly the entry N -> code for each logical_name found at
   index N, with no entry of the default layout added. *)
C24_ResolverReturnsDefaultOrExactLayout ==
    XmlParsed =>
        \A i \in ResolvedProfiles(xmlGen) :
            LayoutAsClaimed(xmlGen.objects[i], ParseCaptureObjects(xmlGen.objects[i]))

\* the readings the billing-value extraction of the submitted document yields
BillingReadings ==
    CreateReadingsFromBilling(ExtractBillingValues(xmlGen), ExtractCldn(xmlGen),
                              ExtractFileTimestamp(xmlGen, xmlNow))

\* the kind of data point the extraction of a file type makes readings from
KindOfFileType(file_type) ==
    CASE file_type = "ProfileBuffer" -> {"buffer"}
      [] file_type = "LoadProfile" -> {"profile"}
      [] OTHER -> {}

(* C25: whatever the DDSubset of a document with a meter identifier, the
   result of parse starts with the readings of the billing-value extraction;
   the readings that follow are those of the extraction of the file type;
   and a file type that is none of the three known adds a warning and leaves
   success true. *)
C25_BillingAlwaysExtracted ==
    (XmlParsed /\ ExtractCldn(xmlGen) # <<>>) =>
        /\ Len(xmlResult.readings) >= Len(BillingReadings)
        /\ \A k \in DOMAIN BillingReadings :
              /\ xmlResult.readings[k] = BillingReadings[k].reading
              /\ xmlOrigin[k].kind = "billing"
        /\ \A k \in DOMAIN xmlResult.readings :
              k > Len(BillingReadings) =>
                  xmlOrigin[k].kind \in KindOfFileType(DetectFileType(xmlGen))
        /\ DetectFileType(xmlGen) \notin {"BillingValues", "LoadProfile", "ProfileBuffer"} =>
              /\ xmlResult.success
              /\ "Type de fichier non standard" \in Range(xmlResult.warnings)

(***************************************************************************)
(* detect_missing_intervals and its module-level cache                     *)
(* (src/visualization.py).  The cache is a dict: its entries are held in   *)
(* the order of their insertion.                                           *)
(***************************************************************************)
MAX_CACHE_SIZE == 50

\* _get_cache_key: the digest of the text made of the number of readings,
\* the timestamps of the first and the last reading of the list, and the
\* interval; two texts that differ are taken to have different digests
GetCacheKey(readings, interval_minutes) ==
    IF readings = <<>> THEN <<"empty">>
    ELSE <<Len(readings), readings[1].timestamp, readings[Len(readings)].timestamp,
           interval_minutes>>

NoFrames == [df_complete |-> <<>>, df_missing |-> <<>>]

\* pd.date_range(start, end, freq): the instants start + k * interval up to end
ExpectedTimes(start_time, end_time, interval_minutes) ==
    [k \in 1..(SecondsBetween(end_time, start_time) \div (interval_minutes * 60) + 1) |->
        PlusSeconds(start_time, (k - 1) * interval_minutes * 60)]

\* the rows of df_real with a timestamp, in the order of the sorted frame
ValuesAt(df_real, timestamp) == SelectSeq(df_real, LAMBDA r : r.timestamp = timestamp)

\* the left merge of the expected instants with df_real: a row for every
\* reading of an expected instant, one without a value where there is none
MergedRows(expected_times, df_real) ==
    SeqConcat([k \in DOMAIN expected_times |->
        IF ValuesAt(df_real, expected_times[k]) = <<>>
        THEN << [timestamp |-> expected_times[k], is_missing |-> TRUE, value |-> 0] >>
        ELSE [j \in DOMAIN ValuesAt(df_real, expected_times[k]) |->
                 [timestamp |-> expected_times[k], is_missing |-> FALSE,
                  value |-> ValuesAt(df_real, expected_times[k])[j].value]]])

\* interpolate(method='linear'): a missing value between two values lies on
\* the line through them, by row number; after the last value it is that
\* value.  The value is held as the quotient num / den.
Interpolated(rows, k) ==
    IF ~rows[k].is_missing THEN [num |-> rows[k].value, den |-> 1]
    ELSE LET before == {i \in 1..(k - 1) : ~rows[i].is_missing}
             after  == {j \in (k + 1)..Len(rows) : ~rows[j].is_missing}
             i == CHOOSE x \in before : \A y \in before : y <= x
             j == CHOOSE x \in after : \A y \in after : x <= y
         IN  IF before = {} THEN [num |-> 0, den |-> 0]
             ELSE IF after = {} THEN [num |-> rows[i].value, den |-> 1]
             ELSE [num |-> rows[i].value * (j - i) + (rows[j].value - rows[i].value) * (k - i),
                   den |-> j - i]

\* the computation of detect_missing_intervals for a list that is not empty
ComputeMissing(readings, interval_minutes) ==
    LET df_real == SortedByTimestamp(readings)
        rows    == MergedRows(ExpectedTimes(MinInstant(TimestampsOf(readings)),
                                            MaxInstant(TimestampsOf(readings)),
                                            interval_minutes),
                              df_real)
        df_complete == [k \in DOMAIN rows |->
                           [index |-> k - 1, timestamp |-> rows[k].timestamp,
                            is_missing |-> rows[k].is_missing, value |-> rows[k].value,
                            value_interpolated |-> Interpolated(rows, k)]]
    IN  [df_complete |-> df_complete,
         df_missing  |-> SelectSeq(df_complete, LAMBDA row : row.is_missing)]

CacheKeys(cache) == {cache[k].key : k \in DOMAIN cache}

CacheEntry(cache, cache_key) ==
    cache[CHOOSE k \in DOMAIN cache : cache[k].key = cache_key]

\* an eviction that drops the entry inserted last
EvictNewest(cache) == SubSeq(cache, 1, Len(cache) - 1)

\* del _computation_cache[next(iter(_computation_cache))]: the entry
\* inserted first goes
EvictOldest(cache) == Tail(cache)

\* _computation_cache[cache_key] = ... for a key the cache does not hold
CacheStore(cache, cache_key, frames) ==
    (IF Len(cache) >= MAX_CACHE_SIZE THEN EvictOldest(cache) ELSE cache)
    \o << [key |-> cache_key, frames |-> frames] >>

\* detect_missing_intervals: what it returns, and the cache after it
DetectMissingIntervals(cache, readings, interval_minutes, use_cache) ==
    IF readings = <<>> THEN [out |-> NoFrames, cache |-> cache]
    ELSE IF use_cache /\ GetCacheKey(readings, interval_minutes) \in CacheKeys(cache)
    THEN [out |-> CacheEntry(cache, GetCacheKey(readings, interval_minutes)).frames,
          cache |-> cache]
    ELSE [out |-> ComputeMissing(readings, interval_minutes),
          cache |-> IF use_cache
                    THEN CacheStore(cache, GetCacheKey(readings, interval_minutes),
                                    ComputeMissing(readings, interval_minutes))
                    ELSE cache]

\* readings of one channel a number of minutes after midnight
ChannelReading(minute, value) ==
    MeterReading(PlusSeconds(CivilInstant(2025, 8, 26, 0, 0, 0), minute * 60), value,
                 Ch73, "kWh", DefaultQuality, MeterId)

\* two lists of three readings that start and end at the same instants, one
\* without the reading of 00:30 and one without that of 00:15, and no list
GenSeries ==
    {<<ChannelReading(0, 1000), ChannelReading(15, 2000), ChannelReading(45, 4000)>>,
     <<ChannelReading(0, 1000), ChannelReading(30, 7000), ChannelReading(45, 4000)>>,
     <<>>}

DefaultInterval == 15

\* the number of intervals other than the default one that calls are made with
MaxFresh == 51

\* the largest interval of a key in the cache, the default one if there is none
HighInterval(cache) ==
    LET used == {cache[k].key[4] : k \in DOMAIN cache} \cup {DefaultInterval}
    IN  CHOOSE m \in used : \A n \in used : n <= m

VisInit == Idle

\* a call with the default interval
VisDetectDefault ==
    \E readings \in GenSeries, use_cache \in BOOLEAN :
        \E done \in {DetectMissingIntervals(visCache, readings, DefaultInterval, use_cache)} :
            /\ visCall' = [readings |-> readings, interval_minutes |-> DefaultInterval,
                           use_cache |-> use_cache]
            /\ visOut' = done.out
            /\ visCache' = done.cache
            /\ UNCHANGED NotVis

\* a call with another interval: the latest in use, or the next one
VisDetectInterval ==
    \E interval_minutes \in {HighInterval(visCache), HighInterval(visCache) + 1},
       use_cache \in BOOLEAN :
        /\ interval_minutes \in (DefaultInterval + 1)..(DefaultInterval + MaxFresh)
        /\ \E readings \in {<<ChannelReading(0, 1000), ChannelReading(15, 2000),
                              ChannelReading(45, 4000)>>} :
            \E done \in {DetectMissingIntervals(visCache, readings, interval_minutes,
                                                use_cache)} :
                /\ visCall' = [readings |-> readings, interval_minutes |-> interval_minutes,
                               use_cache |-> use_cache]
                /\ visOut' = done.out
                /\ visCache' = done.cache
                /\ UNCHANGED NotVis

VisNext == VisDetectDefault \/ VisDetectInterval

SpecCache == VisInit /\ [][VisNext]_vars

\* what a computation without the cache returns for a call
UncachedFor(call) ==
    IF call.readings = <<>> THEN NoFrames
    ELSE ComputeMissing(call.readings, call.interval_minutes)

Uncached == UncachedFor(visCall)

(* C26: whatever calls were made before, a call of detect_missing_intervals
   returns what the computation without the cache returns for its own
   reading list and interval; a hit never returns the frames computed for
   another reading list. *)
C26_CacheHitReturnsOwnResult ==
    visCall # NoCall => visOut = Uncached

\* the entry the last call put into the cache
NewEntry(cache) == cache[Len(cache)]

(* C30: the cache never holds more than 50 entries; a call that changes it
   adds one entry under a key it did not hold, after dropping the oldest
   entry, and only that one, if it was full; and a call with use_cache false
   or with no readings leaves the cache as it was and returns what the
   computation without the cache returns. *)
C30_CacheBoundedFifo ==
    [][/\ Len(visCache') <= MAX_CACHE_SIZE
       /\ (visCall'.readings = <<>> \/ ~visCall'.use_cache)
             => (visCache' = visCache /\ visOut' = UncachedFor(visCall'))
       /\ visCache' # visCache
             => /\ NewEntry(visCache').key \notin CacheKeys(visCache)
                /\ visCache' = (IF Len(visCache) = MAX_CACHE_SIZE THEN Tail(visCache)
                                ELSE visCache) \o <<NewEntry(visCache')>>]_vars

\* the cache is full, the last call has put its entry in, and the entries
\* of the default interval and of the first other interval are gone
C30_Witness ==
    /\ Len(visCache) = MAX_CACHE_SIZE
    /\ visCall # NoCall
    /\ visCall.use_cache
    /\ NewEntry(visCache).key = GetCacheKey(visCall.readings, visCall.interval_minutes)
    /\ \A k \in DOMAIN visCache :
          visCache[k].key[4] \notin {DefaultInterval, DefaultInterval + 1}


(***************************************************************************)
(* The OBIS tables of the two parsers and of the channel registry, asked   *)
(* for one quantity: the tabular parser by its dotted code                 *)
(* (src/parsers.py:48-61), the XML parser by its vendor hex code           *)
(* (src/parsers.py:179-226), the registry by the channel                   *)
(* (src/export.py:174-301, src/validation.py:147-160).                     *)
(***************************************************************************)
\* the largest value group C of the quantities that are looked up
MaxQuantity == 16

\* "1-0:<c>.<d>.<e>" as text
DottedCode(c, d, e) ==
    <<"1", "-", "0", ":">> \o Digits(c) \o <<".">> \o Digits(d) \o <<".">> \o Digits(e)

\* the vendor hex code of the quantity a dotted code "A-B:C.D.E" names: the
\* five groups as two hex digits each, then FF (the dotted codes noted
\* beside the keys of MAP110XMLParser.OBIS_MAPPING)
HexOfDotted(obis_code) ==
    LET medium == Split(Split(obis_code, ":")[1], "-")
        groups == Split(Split(obis_code, ":")[2], ".")
    IN  ToHex(DigitsToInt(medium[1]), 2) \o ToHex(DigitsToInt(medium[2]), 2)
        \o ToHex(DigitsToInt(groups[1]), 2) \o ToHex(DigitsToInt(groups[2]), 2)
        \o ToHex(DigitsToInt(groups[3]), 2) \o <<"F", "F">>

ObInit == Idle

ObSubmit ==
    /\ obCode = NoLookup
    /\ \E c \in 1..MaxQuantity, d \in {8, 24}, e \in 0..2 : obCode' = DottedCode(c, d, e)
    /\ UNCHANGED <<obFound, NotOb>>

\* the lookups: OBIS_MAPPING.get of the tabular parser,
\* _get_reading_type_from_logical_name of the XML parser, and the code the
\* registry and the validator hold for the channel of the tabular parser
ObLookup ==
    /\ obCode # NoLookup
    /\ obFound = NoLookup
    /\ obFound' = [csv       |-> CsvReadingType(obCode),
                   xml       |-> GetReadingTypeFromLogicalName(HexOfDotted(obCode)),
                   registry  |-> SummaryObisInfo(CsvReadingType(obCode)).code_obis,
                   validator |-> IF CsvReadingType(obCode) \in DOMAIN ReadingTypeToObis
                                 THEN ReadingTypeToObis[CsvReadingType(obCode)]
                                 ELSE <<>>]
    /\ UNCHANGED <<obCode, NotOb>>

ObCollect ==
    /\ obFound # NoLookup
    /\ obCode' = NoLookup
    /\ obFound' = NoLookup
    /\ UNCHANGED NotOb

ObNext == ObSubmit \/ ObLookup \/ ObCollect

SpecObis == ObInit /\ [][ObNext]_vars

\* the quantity is in the table of the tabular parser and in that of the
\* XML parser
MappedBoth == obFound # NoLookup /\ obFound.csv # "" /\ obFound.xml # NoType

(* C27: a quantity that the tabular parser maps by its dotted code and the
   XML parser maps by its vendor hex code has the same channel_id in both
   tables, and the channel registry and the validator hold that dotted code
   for that channel_id. *)
C27_ObisTablesAgree ==
    MappedBoth =>
        /\ obFound.csv = obFound.xml
        /\ obFound.registry = obCode
        /\ obFound.validator = obCode


(* C28: for every result process_file or process_zip returns, success is
   true exactly when the list of errors is empty. *)
C28_SuccessIffNoErrors ==
    \A k \in DOMAIN fpOut : fpOut[k].success <=> (fpOut[k].errors = <<>>)


\* a failure was raised while the file of a result was made: every failure
\* a parser or the processor catches leaves an entry in errors
FailureCaught(result) == result.errors # <<>>

(* C29: process_file returns one result for any upload and process_zip a
   list of results, whatever the bytes and the name; and a result made
   after a failure was raised inside a parser has success = false, an error
   message and no readings. *)
C29_FailureGivesEmptyFailedResult ==
    /\ fpCalls.op = "file" => Len(fpOut) = 1
    /\ fpCalls.op = "zip" /\ fpGen.content.kind # "zip" => Len(fpOut) = 1
    /\ \A k \in DOMAIN fpOut :
          fpCalls.parsers[k] # "none" /\ FailureCaught(fpOut[k]) =>
              ~fpOut[k].success /\ fpOut[k].readings = <<>>


\* the errors of a result are those of single rows of a tabular file, or
\* those of single sheets of a workbook
RowOrSheetErrors(parser, result) ==
    \/ parser = "csv" /\ \A e \in DOMAIN result.errors : result.errors[e].line >= 4
    \/ parser = "excel"
          /\ \A e \in DOMAIN result.errors : result.errors[e].msg = "Erreur dans la feuille"

(* C29, amended: process_file returns one result for any upload and
   process_zip a list of results; a result with an error never has
   success = true; and a result with an error has no readings unless all its
   errors are those of single rows of a tabular file or of single sheets of
   a workbook, which do not end the parse. *)
C29_AbortGivesEmptyFailedResult ==
    /\ fpCalls.op = "file" => Len(fpOut) = 1
    /\ fpCalls.op = "zip" /\ fpGen.content.kind # "zip" => Len(fpOut) = 1
    /\ \A k \in DOMAIN fpOut :
          FailureCaught(fpOut[k]) =>
              /\ ~fpOut[k].success
              /\ fpOut[k].readings # <<>> => RowOrSheetErrors(fpCalls.parsers[k], fpOut[k])

\* the XML parser was handed what is no document: the failure ended its
\* parse, and the result has one error and no readings
C29_Witness ==
    /\ fpCalls.op = "file"
    /\ fpCalls.parsers[1] = "xml"
    /\ fpGen.content.kind # "xml"
    /\ FailsWithOneError(fpOut[1])

=============================================================================
